---- MODULE Spec2Model ----
(***************************************************************************)
(* Tiered tensor handles, the asynchronous copy engine and the Disk        *)
(* backend's copy-worker pool of                                           *)
(* src/speedup/flexgen/infinigen/pytorch_backend.py.                       *)
(*                                                                         *)
(* One caller thread issues allocate / load / delete / copy / move /       *)
(* general_copy / synchronize / close_copy_threads; every TorchDisk owns a *)
(* FIFO queue.Queue and a pool of copy_worker_func threads; the primary    *)
(* CUDA stream holds the non-blocking device copies that were issued and   *)
(* have not completed yet.                                                 *)
(***************************************************************************)
EXTENDS Integers, Sequences, FiniteSets, TLC

\* ------------------------------------------------------------------ bounds
MaxHandles == 2      \* TorchTensor objects created in one run
MaxShape0 == 2       \* largest shape[0] of an allocated tensor
MaxVal == 1          \* load_from_np writes a value of 1..MaxVal
MaxTasks == 1        \* copy tasks submitted to the worker queues in one run
MaxStream == 1       \* non-blocking device copies in flight
NumCopyThreads == 1  \* num_copy_threads of every TorchDisk
MaxCalls == 3        \* calls the caller thread makes in one run
RTHandles == 3       \* tensors a round trip T1 -> T2 -> T1 creates
NumBase == 2         \* base_devices of a TorchMixedDevice
MaxBackends == 4     \* backend objects constructed in one run
MaxSeq == 3          \* longest history of a decode step, the scenario's aside
MaxDen == 2          \* sparsities are num / den with den in 2..MaxDen
MaxBandwidth == 2    \* bandwidths of a link are 1..MaxBandwidth
MaxSize == 2         \* transfer sizes passed to io_time are 1..MaxSize
MaxAxis == 3         \* longest axis the slices passed to cut_indices range over
MaxHeads == 3        \* n_head of the cache partition is 1..MaxHeads
MaxBatch == 3        \* gpu_batch_size of the cache partition is 1..MaxBatch
MaxRingCalls == 5    \* calls made on one device's attention workspace
MaxNameStart == 9     \* names the counter has handed out before the run: 0..MaxNameStart
MaxNameCalls == 3     \* allocate and delete calls of a run over generated names
MaxSegLen == 2       \* largest seg_lengths entry of a segmented tensor

\* ------------------------------------------------------------ device model
CUDA == "cuda"
CPU == "cpu"
MIXED == "mixed"
COMPRESSED == "compressed"
Disks == {"disk"}
None == "None"

\* DeviceType.convert / the device_type attribute of each backend
DeviceType(dev) ==
    IF dev \in Disks THEN "DISK"
    ELSE IF dev = CUDA THEN "CUDA"
    ELSE IF dev = CPU THEN "CPU"
    ELSE IF dev = MIXED THEN "MIXED"
    ELSE IF dev = COMPRESSED THEN "COMPRESSED"
    ELSE "NONE"

Backends == {CUDA, CPU, MIXED} \cup Disks
Vals == 1..MaxVal
Threads == 1..NumCopyThreads
NoFile == -1

VARIABLES
    tensors,             \* Seq of TorchTensor objects, in creation order
    name_count,          \* TorchTensor.name_count: names handed out so far
    files,               \* files[name]: contents of the .npy file, or NoFile
    copy_queue,          \* copy_queue[d]: the queue.Queue of TorchDisk d
    unfinished,          \* unfinished[d]: Queue.unfinished_tasks of that queue
    queue_none,          \* queue_none[d]: close_copy_threads set copy_queue = None
    worker,              \* worker[d][t]: position of copy thread t of disk d
    stream,              \* non-blocking copies issued on the CUDA stream, FIFO
    global_cpu_device,   \* the module-level default host backend
    global_disk_device,  \* the module-level default disk backend
    pc,                  \* where the caller thread is
    calls,               \* calls the caller thread has made
    last,                \* the caller's last call and its outcome ("pending"
                         \* while the call blocks, else the exception or "")
    submitted,           \* history: tasks ever put on each queue
    written,             \* history: tasks whose copy reached the destination
    rt                   \* the round-trip driver's position (RoundTripSpec only)

vars == <<tensors, name_count, files, copy_queue, unfinished, queue_none,
          worker, stream, global_cpu_device, global_disk_device, pc, calls,
          last, submitted, written, rt>>

\* ------------------------------------------------------------------ helpers
Handles == 1..Len(tensors)

\* a handle the caller still holds a reference to
Held(h) == h \in Handles /\ tensors[h].ref

Live(h) == h \in Handles /\ tensors[h].device # None

\* TorchTensor.__init__: delete_file defaults to True
NewTensor(dev, shape0, data, pinned, name, ref) ==
    [device |-> dev, shape0 |-> shape0, data |-> data, pinned |-> pinned,
     name |-> name, delete_file |-> TRUE, ref |-> ref]

\* contents a reader of handle h sees: the file for a Disk tensor, else data
Contents(h) ==
    IF DeviceType(tensors[h].device) = "DISK" THEN files[tensors[h].name]
    ELSE tensors[h].data

Ret(op, a, b, ret, err) == [op |-> op, a |-> a, b |-> b, ret |-> ret, err |-> err]

Idle == pc = <<"idle">>

\* the caller thread is between two calls and makes another one
Call == Idle /\ calls < MaxCalls /\ calls' = calls + 1

NoRT == [pc |-> "off", t1 |-> None, t2 |-> None, n |-> 0, pin |-> FALSE,
         v |-> 0, h |-> 0]

Sentinel == [id |-> 0, dst |-> 0, src |-> 0]

InitBase ==
    /\ tensors = <<>>
    /\ name_count = 0
    /\ files = [n \in 1..(MaxHandles + RTHandles) |-> NoFile]
    /\ copy_queue = [d \in Disks |-> <<>>]
    /\ unfinished = [d \in Disks |-> 0]
    /\ queue_none = [d \in Disks |-> FALSE]
    /\ worker = [d \in Disks |-> [t \in Threads |-> [state |-> "idle", item |-> Sentinel]]]
    /\ stream = <<>>
    /\ global_cpu_device = CPU
    /\ global_disk_device = "disk"
    /\ pc = <<"idle">>
    /\ calls = 0
    /\ last = Ret("init", 0, None, 0, "")
    /\ submitted = [d \in Disks |-> {}]
    /\ written = {}

Init == InitBase /\ rt = NoRT

\* the bounds on tensors and tasks: a round trip makes RTHandles tensors and
\* one copy per move
HandleLimit == IF rt.pc = "off" THEN MaxHandles ELSE RTHandles
TaskLimit == IF rt.pc = "off" THEN MaxTasks ELSE RTHandles - 1

\* ------------------------------------------------------------- allocation
\* torch.empty leaves the new tensor's memory as it was: some value every
\* reader sees until the first write, different from every value the run loads
Uninit(name) == 0 - (name + 1)

\* TorchDevice.allocate: pin_memory defaults to True on the CPU backend and is
\* forced to False elsewhere
TorchDevice_allocate(tens, dev, shape0, pin_memory, ref) ==
    LET pinned == IF DeviceType(dev) = "CPU" THEN pin_memory ELSE FALSE
        name == name_count + 1
    IN  [tensors |-> Append(tens, NewTensor(dev, shape0, Uninit(name), pinned,
                                            name, ref)),
         files |-> files]

\* TorchDisk.allocate: open_memmap(mode="w+") creates a zero-filled file
TorchDisk_allocate(tens, dev, shape0, ref) ==
    LET name == name_count + 1
    IN  [tensors |-> Append(tens, NewTensor(dev, shape0, name, FALSE, name, ref)),
         files |-> [files EXCEPT ![name] = 0]]

allocate(tens, dev, shape0, pin_memory, ref) ==
    IF DeviceType(dev) = "DISK" THEN TorchDisk_allocate(tens, dev, shape0, ref)
    ELSE TorchDevice_allocate(tens, dev, shape0, pin_memory, ref)

\* ------------------------------------------------------------ general_copy
\* mutant: the two Disk branches come before the COMPRESSED branch
general_copy_case_disk_first(tens, dst, src) ==
    LET d == tens[dst]
        s == tens[src]
    IN  IF d.device = None THEN "AttributeError"
        ELSE IF DeviceType(d.device) = "MIXED" THEN "mixed_dst"
        ELSE IF s.device = None THEN "AttributeError"
        ELSE IF DeviceType(s.device) = "MIXED" THEN "mixed_src"
        ELSE IF DeviceType(s.device) = "DISK" THEN "submit_src"
        ELSE IF DeviceType(d.device) = "DISK" THEN "submit_dst"
        ELSE IF \/ DeviceType(s.device) = "COMPRESSED"
                \/ DeviceType(d.device) = "COMPRESSED" THEN "compressed"
        ELSE IF /\ DeviceType(s.device) = "CUDA"
                /\ DeviceType(d.device) = "CPU"
                /\ ~d.pinned
                /\ s.shape0 > 1 THEN "relay"
        ELSE IF /\ DeviceType(s.device) = "CPU"
                /\ DeviceType(d.device) = "CUDA"
                /\ ~s.pinned THEN "pin"
        ELSE "direct"

\* The branch general_copy takes for whole-tensor indices; dereferencing the
\* device of a deleted tensor raises AttributeError.
general_copy_case(tens, dst, src) ==
    LET d == tens[dst]
        s == tens[src]
    IN  IF d.device = None THEN "AttributeError"
        ELSE IF DeviceType(d.device) = "MIXED" THEN "mixed_dst"
        ELSE IF s.device = None THEN "AttributeError"
        ELSE IF DeviceType(s.device) = "MIXED" THEN "mixed_src"
        ELSE IF \/ DeviceType(s.device) = "COMPRESSED"
                \/ DeviceType(d.device) = "COMPRESSED" THEN "compressed"
        ELSE IF DeviceType(s.device) = "DISK" THEN "submit_src"
        ELSE IF DeviceType(d.device) = "DISK" THEN "submit_dst"
        ELSE IF /\ DeviceType(s.device) = "CUDA"
                /\ DeviceType(d.device) = "CPU"
                /\ ~d.pinned
                /\ s.shape0 > 1 THEN "relay"
        ELSE IF /\ DeviceType(s.device) = "CPU"
                /\ DeviceType(d.device) = "CUDA"
                /\ ~s.pinned THEN "pin"
        ELSE "direct"

\* the TorchDisk whose submit_copy general_copy calls in the queued branches
submit_target(tens, dst, src) ==
    LET c == general_copy_case(tens, dst, src)
    IN  IF c = "submit_src" THEN tens[src].device
        ELSE IF c = "submit_dst" THEN tens[dst].device
        ELSE global_disk_device

\* mutant: no branch goes to a queue
Queued_never(c) == FALSE

Queued(c) == c \in {"submit_src", "submit_dst", "relay"}

\* copy_(src, non_blocking=True) returns before the transfer is done when one
\* side is on the accelerator and the host side, if any, is pinned (the "pin"
\* branch pins the source first).
NonBlocking(tens, dst, src) ==
    LET d == tens[dst]
        s == tens[src]
    IN  /\ (DeviceType(d.device) = "CUDA" \/ DeviceType(s.device) = "CUDA")
        /\ ~(DeviceType(d.device) = "CPU" /\ ~d.pinned)

NumSubmitted == Cardinality(UNION {submitted[d] : d \in Disks})

\* what a call general_copy(dst, None, src, None) needs of the model's bounds
general_copy_fits(tens, dst, src) ==
    LET c == general_copy_case(tens, dst, src)
    IN  /\ Queued(c) => NumSubmitted < TaskLimit
        /\ (c \in {"pin", "direct"} /\ NonBlocking(tens, dst, src))
              => Len(stream) < MaxStream

\* TorchDisk.submit_copy: put_nowait on the queue; a closed backend has
\* copy_queue = None and the call raises.
submit_copy_err(q) == queue_none[q]

\* general_copy(dst, None, src, None) starting from tensors = tens.
\* Yields the exception raised ("" for none) and the state it leaves.
general_copy(tens, dst, src) ==
    LET c == general_copy_case(tens, dst, src)
        q == submit_target(tens, dst, src)
        task == [id |-> NumSubmitted + 1, dst |-> dst, src |-> src]
        same == [err |-> "", tensors |-> tens, copy_queue |-> copy_queue,
                 unfinished |-> unfinished, submitted |-> submitted,
                 stream |-> stream]
    IN  IF c = "AttributeError" THEN [same EXCEPT !.err = "AttributeError"]
        ELSE IF Queued(c) THEN
            IF submit_copy_err(q) THEN [same EXCEPT !.err = "AttributeError"]
            ELSE [same EXCEPT
                    !.copy_queue = [copy_queue EXCEPT ![q] = Append(@, task)],
                    !.unfinished = [unfinished EXCEPT ![q] = @ + 1],
                    !.submitted = [submitted EXCEPT ![q] = @ \cup {task.id}]]
        ELSE IF NonBlocking(tens, dst, src) THEN
            [same EXCEPT !.stream =
                Append(stream, [dst |-> dst, val |-> tens[src].data,
                                src |-> IF c = "direct" /\ DeviceType(tens[src].device) = "CPU"
                                        THEN src ELSE 0])]
        ELSE [same EXCEPT !.tensors =
                [tens EXCEPT ![dst].data = tens[src].data]]

\* ------------------------------------------------------- caller operations
\* Every operation below leaves calls and rt to Next or the round-trip driver.

\* backend.allocate(shape, dtype, pin_memory=...) called by the client
Allocate(dev, shape0, pin_memory) ==
    /\ Idle
    /\ Len(tensors) < HandleLimit
    /\ LET a == allocate(tensors, dev, shape0, pin_memory, TRUE)
       IN  /\ tensors' = a.tensors
           /\ files' = a.files
    /\ name_count' = name_count + 1
    /\ last' = Ret("allocate", 0, dev, Len(tensors) + 1, "")
    /\ UNCHANGED <<copy_queue, unfinished, queue_none, worker, stream,
                   global_cpu_device, global_disk_device, pc, submitted, written>>

\* TorchTensor.load_from_np: a file write on Disk, a blocking copy_ elsewhere
load_from_np(h, v) ==
    /\ Idle
    /\ Held(h)
    /\ IF tensors[h].device = None
       THEN /\ last' = Ret("load_from_np", h, None, 0, "AttributeError")
            /\ UNCHANGED <<tensors, files>>
       ELSE /\ last' = Ret("load_from_np", h, None, 0, "")
            /\ IF DeviceType(tensors[h].device) = "DISK"
               THEN /\ files' = [files EXCEPT ![tensors[h].name] = v]
                    /\ UNCHANGED tensors
               ELSE /\ tensors' = [tensors EXCEPT ![h].data = v]
                    /\ UNCHANGED files
    /\ UNCHANGED <<name_count, copy_queue, unfinished, queue_none, worker,
                   stream, global_cpu_device, global_disk_device, pc, submitted, written>>

\* client code clearing the delete_file attribute of a handle
clear_delete_file(h) ==
    /\ Idle
    /\ Held(h)
    /\ DeviceType(tensors[h].device) = "DISK"
    /\ tensors[h].delete_file
    /\ tensors' = [tensors EXCEPT ![h].delete_file = FALSE]
    /\ last' = Ret("clear_delete_file", h, None, 0, "")
    /\ UNCHANGED <<name_count, files, copy_queue, unfinished, queue_none,
                   worker, stream, global_cpu_device, global_disk_device, pc, submitted, written>>

\* mutant: the file is removed whatever delete_file says
TorchDisk_delete_always(fl, t) == [fl EXCEPT ![t.name] = NoFile]

\* TorchDisk.delete: remove the backing file if it exists and delete_file is set
TorchDisk_delete(fl, t) ==
    IF fl[t.name] # NoFile /\ t.delete_file
    THEN [fl EXCEPT ![t.name] = NoFile]
    ELSE fl

\* The state TorchTensor.delete leaves for a tensor whose device is set
delete_effect(tens, fl, h) ==
    [tensors |-> [tens EXCEPT ![h].device = None, ![h].data = None],
     files |-> IF DeviceType(tens[h].device) = "DISK"
               THEN TorchDisk_delete(fl, tens[h]) ELSE fl]

\* mutant: delete without its assertion
delete_asserts_nothing(t) == TRUE

\* the assertion guarding TorchTensor.delete
delete_asserts(t) == t.device # None

\* TorchTensor.delete
Delete(h) ==
    /\ Idle
    /\ Held(h)
    /\ IF ~delete_asserts(tensors[h])
       THEN /\ last' = Ret("delete", h, None, 0, "AssertionError")
            /\ UNCHANGED <<tensors, files>>
       ELSE LET e == delete_effect(tensors, files, h)
            IN  /\ tensors' = e.tensors
                /\ files' = e.files
                /\ last' = Ret("delete", h, None, 0, "")
    /\ UNCHANGED <<name_count, copy_queue, unfinished, queue_none, worker,
                   stream, global_cpu_device, global_disk_device, pc, submitted, written>>

\* general_copy(dst, None, src, None) called by the client on two handles of
\* equal shape
GeneralCopy(dst, src) ==
    /\ Idle
    /\ Held(dst) /\ Held(src) /\ dst # src
    /\ tensors[dst].shape0 = tensors[src].shape0
    /\ general_copy_fits(tensors, dst, src)
    /\ LET g == general_copy(tensors, dst, src)
       IN  /\ tensors' = g.tensors
           /\ copy_queue' = g.copy_queue
           /\ unfinished' = g.unfinished
           /\ submitted' = g.submitted
           /\ stream' = g.stream
           /\ last' = Ret("general_copy", src, dst, 0, g.err)
    /\ UNCHANGED <<name_count, files, queue_none, worker, global_cpu_device, global_disk_device,
                   pc, written>>

\* TorchTensor.copy(dst) with src_indices = None.  TorchMixedDevice.allocate
\* has a required seg_lengths parameter that copy does not pass: TypeError.
\* A copy that raised leaves the tensor it allocated unreferenced.
copy_body(h, dst, op) ==
    IF DeviceType(dst) = "MIXED"
    THEN /\ last' = Ret(op, h, dst, 0, "TypeError")
         /\ UNCHANGED <<tensors, name_count, files, copy_queue, unfinished,
                        submitted, stream>>
    ELSE /\ Len(tensors) < HandleLimit
         /\ LET a == allocate(tensors, dst, tensors[h].shape0, TRUE, TRUE)
                ret == Len(tensors) + 1
            IN  /\ general_copy_fits(a.tensors, ret, h)
                /\ LET g == general_copy(a.tensors, ret, h)
                   IN  /\ name_count' = name_count + 1
                       /\ files' = a.files
                       /\ copy_queue' = g.copy_queue
                       /\ unfinished' = g.unfinished
                       /\ submitted' = g.submitted
                       /\ stream' = g.stream
                       /\ IF g.err # ""
                          THEN /\ tensors' = [g.tensors EXCEPT ![ret].ref = FALSE]
                               /\ last' = Ret(op, h, dst, 0, g.err)
                          ELSE /\ tensors' = g.tensors
                               /\ last' = Ret(op, h, dst, ret,
                                              IF op = "move" THEN "pending"
                                              ELSE "")

\* TorchTensor.copy
Copy(h, dst) ==
    /\ Idle
    /\ Held(h)
    /\ copy_body(h, dst, "copy")
    /\ UNCHANGED <<queue_none, worker, global_cpu_device, global_disk_device, pc, written>>

\* the no-op fast path of TorchTensor.move
move_same_device(t, dst) == t.device = dst

\* TorchTensor.move up to the return of self.copy(dst): the copy workers and
\* the stream run between the copy and the delete that follows it
MoveCopy(h, dst) ==
    /\ Idle
    /\ Held(h)
    /\ IF move_same_device(tensors[h], dst)
       THEN /\ last' = Ret("move", h, dst, h, "")
            /\ UNCHANGED <<tensors, name_count, files, copy_queue, unfinished,
                           submitted, stream, pc>>
       ELSE /\ copy_body(h, dst, "move")
            /\ pc' = IF last'.err = "pending" THEN <<"move_delete">>
                     ELSE <<"idle">>
    /\ UNCHANGED <<queue_none, worker, global_cpu_device, global_disk_device, written>>

\* TorchTensor.move, the rest: self.delete() and return ret
MoveDelete ==
    /\ pc = <<"move_delete">>
    /\ IF ~delete_asserts(tensors[last.a])
       THEN /\ last' = [last EXCEPT !.ret = 0, !.err = "AssertionError"]
            /\ UNCHANGED <<tensors, files>>
       ELSE LET e == delete_effect(tensors, files, last.a)
            IN  /\ tensors' = e.tensors
                /\ files' = e.files
                /\ last' = [last EXCEPT !.err = ""]
    /\ pc' = <<"idle">>
    /\ UNCHANGED <<name_count, copy_queue, unfinished, queue_none, worker,
                   stream, global_cpu_device, global_disk_device, submitted, written>>

\* mutant: join returns while tasks are still unfinished
join_returns_early(d) == TRUE

\* Queue.join returns once unfinished_tasks is zero
join_returns(d) == unfinished[d] = 0

\* TorchDisk.synchronize, the call: copy_queue.join() (AttributeError once
\* close_copy_threads has set copy_queue to None)
DiskSynchronizeCall(d) ==
    /\ Idle
    /\ IF queue_none[d]
       THEN /\ last' = Ret("synchronize", 0, d, 0, "AttributeError")
            /\ UNCHANGED pc
       ELSE /\ pc' = <<"join", d>>
            /\ last' = Ret("synchronize", 0, d, 0, "pending")
    /\ UNCHANGED <<tensors, name_count, files, copy_queue, unfinished,
                   queue_none, worker, stream, global_cpu_device, global_disk_device,
                   submitted, written>>

\* TorchDisk.synchronize, the return
DiskSynchronizeReturn(d) ==
    /\ pc = <<"join", d>>
    /\ join_returns(d)
    /\ pc' = <<"idle">>
    /\ last' = Ret("synchronize", 0, d, 0, "")
    /\ UNCHANGED <<tensors, name_count, files, copy_queue, unfinished,
                   queue_none, worker, stream, global_cpu_device, global_disk_device,
                   submitted, written>>

\* mutant: the barrier returns while copies are still in flight
barrier_returns_early == TRUE

\* torch.cuda.synchronize returns once the device's issued work is done
barrier_returns == stream = <<>>

\* TorchDevice.synchronize, the call
DeviceSynchronizeCall ==
    /\ Idle
    /\ pc' = <<"cuda_sync">>
    /\ last' = Ret("cuda_synchronize", 0, CUDA, 0, "pending")
    /\ UNCHANGED <<tensors, name_count, files, copy_queue, unfinished,
                   queue_none, worker, stream, global_cpu_device, global_disk_device,
                   submitted, written>>

\* TorchDevice.synchronize, the return
DeviceSynchronizeReturn ==
    /\ pc = <<"cuda_sync">>
    /\ barrier_returns
    /\ pc' = <<"idle">>
    /\ last' = Ret("cuda_synchronize", 0, CUDA, 0, "")
    /\ UNCHANGED <<tensors, name_count, files, copy_queue, unfinished,
                   queue_none, worker, stream, global_cpu_device, global_disk_device,
                   submitted, written>>

\* mutant: one None more than the threads, put without being counted
Sentinels_one_more(n) == [i \in 1..(n + 1) |-> Sentinel]

RECURSIVE Sentinels(_)
Sentinels(n) == IF n = 0 THEN <<>> ELSE Append(Sentinels(n - 1), Sentinel)

\* TorchDisk.close_copy_threads, up to the first join: one None per thread
CloseCopyThreadsCall(d) ==
    /\ Idle
    /\ IF queue_none[d]
       THEN /\ last' = Ret("close_copy_threads", 0, d, 0, "AttributeError")
            /\ UNCHANGED <<pc, copy_queue, unfinished>>
       ELSE /\ copy_queue' = [copy_queue EXCEPT
                                ![d] = @ \o Sentinels(NumCopyThreads)]
            /\ unfinished' = [unfinished EXCEPT ![d] = @ + NumCopyThreads]
            /\ pc' = <<"close", d>>
            /\ last' = Ret("close_copy_threads", 0, d, 0, "pending")
    /\ UNCHANGED <<tensors, name_count, files, queue_none, worker, stream,
                   global_cpu_device, global_disk_device, submitted, written>>

\* Thread.join returns for a thread that returned or died of an exception
thread_ended(w) == w.state \in {"exit", "raised"}

\* TorchDisk.close_copy_threads, the rest: every t.join(), copy_queue.join(),
\* then copy_queue = None
CloseCopyThreadsReturn(d) ==
    /\ pc = <<"close", d>>
    /\ \A t \in Threads : thread_ended(worker[d][t])
    /\ join_returns(d)
    /\ queue_none' = [queue_none EXCEPT ![d] = TRUE]
    /\ pc' = <<"idle">>
    /\ last' = Ret("close_copy_threads", 0, d, 0, "")
    /\ UNCHANGED <<tensors, name_count, files, copy_queue, unfinished,
                   worker, stream, global_cpu_device, global_disk_device, submitted, written>>

\* ------------------------------------------------------------ copy workers
\* mutant: a worker that takes the newest item of the queue
WorkerGet_newest(d, t) ==
    /\ worker[d][t].state = "idle"
    /\ copy_queue[d] # <<>>
    /\ LET item == copy_queue[d][Len(copy_queue[d])]
       IN  /\ copy_queue' = [copy_queue EXCEPT
                               ![d] = SubSeq(@, 1, Len(@) - 1)]
           /\ IF item = Sentinel
              THEN /\ unfinished' = [unfinished EXCEPT ![d] = @ - 1]
                   /\ worker' = [worker EXCEPT ![d][t] =
                                   [state |-> "exit", item |-> item]]
              ELSE /\ worker' = [worker EXCEPT ![d][t] =
                                   [state |-> "busy", item |-> item]]
                   /\ UNCHANGED unfinished
    /\ UNCHANGED <<tensors, name_count, files, queue_none, stream,
                   global_cpu_device, global_disk_device, pc, last, submitted, written>>

\* copy_worker_func: item = queue.get(); a None item is acknowledged with
\* task_done() and the thread returns.
WorkerGet(d, t) ==
    /\ worker[d][t].state = "idle"
    /\ copy_queue[d] # <<>>
    /\ LET item == Head(copy_queue[d])
       IN  /\ copy_queue' = [copy_queue EXCEPT ![d] = Tail(@)]
           /\ IF item = Sentinel
              THEN /\ unfinished' = [unfinished EXCEPT ![d] = @ - 1]
                   /\ worker' = [worker EXCEPT ![d][t] =
                                   [state |-> "exit", item |-> item]]
              ELSE /\ worker' = [worker EXCEPT ![d][t] =
                                   [state |-> "busy", item |-> item]]
                   /\ UNCHANGED unfinished
    /\ UNCHANGED <<tensors, name_count, files, queue_none, stream,
                   global_cpu_device, global_disk_device, pc, last, submitted, written>>

\* map_to_torch_tensor(tensor, None) raises for a deleted tensor (its device is
\* None) and for a Disk tensor whose file is gone (open_memmap)
map_raises(h) ==
    \/ tensors[h].device = None
    \/ DeviceType(tensors[h].device) = "DISK" /\ files[tensors[h].name] = NoFile

\* whether the worker reports the item it failed on: the source has no
\* try/finally around the copy, so the exception leaves the thread
task_done_on_raise == FALSE

\* copy_worker_func, from the unpacking of the item to task_done()
WorkerExec(d, t) ==
    /\ worker[d][t].state = "busy"
    /\ LET item == worker[d][t].item
           src == item.src
           dst == item.dst
       IN  IF map_raises(src) \/ map_raises(dst)
           THEN /\ worker' = [worker EXCEPT ![d][t].state = "raised"]
                /\ unfinished' = IF task_done_on_raise
                                 THEN [unfinished EXCEPT ![d] = @ - 1]
                                 ELSE unfinished
                /\ UNCHANGED <<tensors, files, written>>
           ELSE /\ IF DeviceType(tensors[dst].device) = "DISK"
                   THEN /\ files' = [files EXCEPT
                                       ![tensors[dst].name] = Contents(src)]
                        /\ UNCHANGED tensors
                   ELSE /\ tensors' = [tensors EXCEPT
                                         ![dst].data = Contents(src)]
                        /\ UNCHANGED files
                /\ written' = written \cup {item.id}
                /\ unfinished' = [unfinished EXCEPT ![d] = @ - 1]
                /\ worker' = [worker EXCEPT ![d][t] =
                                [state |-> "idle", item |-> Sentinel]]
    /\ UNCHANGED <<name_count, copy_queue, queue_none, stream,
                   global_cpu_device, global_disk_device, pc, last, submitted>>

\* ------------------------------------------------------------- CUDA stream
\* What a non-blocking copy can deliver: the source as it was when the copy
\* was issued, or, for a pinned host source the caller has written since
\* (the copy reads host memory when it runs), the source as it is now.
StreamValues(c) ==
    {c.val} \cup (IF c.src # 0 /\ tensors[c.src].device # None
                  THEN {tensors[c.src].data} ELSE {})

\* the oldest non-blocking copy on the stream completes
StreamComplete ==
    /\ stream # <<>>
    /\ LET c == Head(stream)
       IN  \E v \in StreamValues(c) :
              tensors' = IF tensors[c.dst].device # None
                         THEN [tensors EXCEPT ![c.dst].data = v]
                         ELSE tensors
    /\ stream' = Tail(stream)
    /\ UNCHANGED <<name_count, files, copy_queue, unfinished, queue_none,
                   worker, global_cpu_device, global_disk_device, pc, last, submitted, written>>

\* ------------------------------------------------------------ specification
DataBackends == {CUDA, CPU} \cup Disks

Next ==
    \/ \E dev \in DataBackends, n \in 1..MaxShape0, p \in BOOLEAN :
          /\ dev # CPU => p = FALSE
          /\ Len(tensors) > 0 => n = tensors[1].shape0
          /\ Call /\ Allocate(dev, n, p) /\ UNCHANGED rt
    \/ \E h \in Handles, v \in Vals : Call /\ load_from_np(h, v) /\ UNCHANGED rt
    \/ \E h \in Handles : Call /\ clear_delete_file(h) /\ UNCHANGED rt
    \/ \E h \in Handles : Call /\ Delete(h) /\ UNCHANGED rt
    \/ \E dst \in Handles, src \in Handles :
          Call /\ GeneralCopy(dst, src) /\ UNCHANGED rt
    \/ \E h \in Handles, dst \in Backends : Call /\ Copy(h, dst) /\ UNCHANGED rt
    \/ \E h \in Handles, dst \in Backends : Call /\ MoveCopy(h, dst) /\ UNCHANGED rt
    \/ MoveDelete /\ UNCHANGED <<calls, rt>>
    \/ \E d \in Disks : Call /\ DiskSynchronizeCall(d) /\ UNCHANGED rt
    \/ \E d \in Disks : DiskSynchronizeReturn(d) /\ UNCHANGED <<calls, rt>>
    \/ Call /\ DeviceSynchronizeCall /\ UNCHANGED rt
    \/ DeviceSynchronizeReturn /\ UNCHANGED <<calls, rt>>
    \/ \E d \in Disks : Call /\ CloseCopyThreadsCall(d) /\ UNCHANGED rt
    \/ \E d \in Disks : CloseCopyThreadsReturn(d) /\ UNCHANGED <<calls, rt>>
    \/ \E d \in Disks, t \in Threads : WorkerGet(d, t) /\ UNCHANGED <<calls, rt>>
    \/ \E d \in Disks, t \in Threads : WorkerExec(d, t) /\ UNCHANGED <<calls, rt>>
    \/ StreamComplete /\ UNCHANGED <<calls, rt>>

Spec == Init /\ [][Next]_vars

\* ------------------------------------------------------ round-trip driver
\* A client that allocates a tensor on T1, loads v, moves it to T2, calls
\* disk.synchronize() and the device barrier (as general_copy's docstring
\* asks), moves it back to T1 and synchronizes again.
RTInit ==
    /\ InitBase
    /\ rt \in [pc : {"alloc"}, t1 : DataBackends, t2 : Backends,
               n : 1..MaxShape0, pin : BOOLEAN, v : Vals, h : {0}]
    /\ rt.t1 # CPU => rt.pin = FALSE

RTAllocate ==
    /\ rt.pc = "alloc"
    /\ Allocate(rt.t1, rt.n, rt.pin)
    /\ rt' = [rt EXCEPT !.pc = "load", !.h = last'.ret]
    /\ UNCHANGED calls

RTLoad ==
    /\ rt.pc = "load"
    /\ load_from_np(rt.h, rt.v)
    /\ rt' = [rt EXCEPT !.pc = "move1"]
    /\ UNCHANGED calls

RTMove(k, dst) ==
    /\ rt.pc = "move" \o k
    /\ \/ MoveCopy(rt.h, dst)
       \/ MoveDelete
    /\ rt' = IF last'.err = "pending" THEN rt
             ELSE IF last'.err # "" THEN [rt EXCEPT !.pc = "failed"]
             ELSE [rt EXCEPT !.pc = "sync" \o k, !.h = last'.ret]
    /\ UNCHANGED calls

RTDiskSynchronizeCall(k) ==
    /\ rt.pc = "sync" \o k
    /\ DiskSynchronizeCall(global_disk_device)
    /\ rt' = [rt EXCEPT !.pc = "join" \o k]
    /\ UNCHANGED calls

RTDiskSynchronizeReturn(k) ==
    /\ rt.pc = "join" \o k
    /\ DiskSynchronizeReturn(global_disk_device)
    /\ rt' = [rt EXCEPT !.pc = "barrier" \o k]
    /\ UNCHANGED calls

RTDeviceSynchronizeCall(k) ==
    /\ rt.pc = "barrier" \o k
    /\ DeviceSynchronizeCall
    /\ rt' = [rt EXCEPT !.pc = "wait" \o k]
    /\ UNCHANGED calls

RTDeviceSynchronizeReturn(k) ==
    /\ rt.pc = "wait" \o k
    /\ DeviceSynchronizeReturn
    /\ rt' = [rt EXCEPT !.pc = IF k = "1" THEN "move2" ELSE "done"]
    /\ UNCHANGED calls

RTNext ==
    \/ RTAllocate
    \/ RTLoad
    \/ RTMove("1", rt.t2)
    \/ RTMove("2", rt.t1)
    \/ \E k \in {"1", "2"} : RTDiskSynchronizeCall(k)
    \/ \E k \in {"1", "2"} : RTDiskSynchronizeReturn(k)
    \/ \E k \in {"1", "2"} : RTDeviceSynchronizeCall(k)
    \/ \E k \in {"1", "2"} : RTDeviceSynchronizeReturn(k)
    \/ \E d \in Disks, t \in Threads : WorkerGet(d, t) /\ UNCHANGED <<calls, rt>>
    \/ \E d \in Disks, t \in Threads : WorkerExec(d, t) /\ UNCHANGED <<calls, rt>>
    \/ StreamComplete /\ UNCHANGED <<calls, rt>>

RoundTripSpec == RTInit /\ [][RTNext]_vars

\* ------------------------------------------------- segmented general_copy
\* general_copy with a TorchMixedDevice tensor on one side, along the axis
\* SEG_DIM only: a tensor is the sequence of its elements on that axis, a
\* range is the slice(start, stop) of that axis.
Min(a, b) == IF a < b THEN a ELSE b
Max(a, b) == IF a > b THEN a ELSE b

RECURSIVE SumSeq(_)
SumSeq(q) == IF q = <<>> THEN 0 ELSE Head(q) + SumSeq(Tail(q))

RECURSIVE seg_points_of(_)
\* mutant: seg_points that are the lengths themselves, not their prefix sums
seg_points_not_summed(lens) == <<0>> \o lens

\* seg_points of TorchMixedDevice.allocate: the prefix sums of seg_lengths
seg_points_of(lens) ==
    IF lens = <<>> THEN <<0>>
    ELSE LET p == seg_points_of(SubSeq(lens, 1, Len(lens) - 1))
         IN  Append(p, p[Len(p)] + lens[Len(lens)])

\* the positions, counted from 1, that the Python slice(start, stop) selects
\* in a dimension of length n: a negative bound counts from the end, and both
\* bounds are clamped to 0..n
PyBound(x, n) == Min(Max(IF x < 0 THEN x + n ELSE x, 0), n)
PySlice(sl, n) == {k \in 1..n : PyBound(sl.start, n) < k /\ k <= PyBound(sl.stop, n)}

\* cut_indices on the SEG_DIM component of the indices
cut_indices(indices, start, stop, base) ==
    [start |-> Max(indices.start, start) - base,
     stop |-> Min(indices.stop, stop) - base]

\* k-th smallest element (k from 1) of a set of integers
RECURSIVE Nth(_, _)
Nth(S, k) ==
    LET m == CHOOSE x \in S : \A y \in S : x <= y
    IN  IF k = 1 THEN m ELSE Nth(S \ {m}, k - 1)

\* dst[dst_indices].copy_(src[src_indices]) on one axis: the extents must be
\* equal, or the source extent 1 (broadcast); otherwise copy_ raises.
\* cnt counts the writes each element of dst received.
copy_into(dst, cnt, di, src, si) ==
    LET D == PySlice(di, Len(dst))
        S == PySlice(si, Len(src))
        nd == Cardinality(D)
        ns == Cardinality(S)
        from(k) == IF ns = nd THEN src[Nth(S, k)] ELSE src[Nth(S, 1)]
        rank(j) == Cardinality({x \in D : x <= j})
    IN  IF ns # nd /\ ns # 1
        THEN [err |-> "RuntimeError", data |-> dst, cnt |-> cnt, ns |-> ns, nd |-> nd]
        ELSE [err |-> "",
              data |-> [j \in 1..Len(dst) |->
                            IF j \in D THEN from(rank(j)) ELSE dst[j]],
              cnt |-> [j \in 1..Len(dst) |->
                            IF j \in D THEN cnt[j] + 1 ELSE cnt[j]],
              ns |-> ns, nd |-> nd]

\* the variables the segmented and the pure-function specifications leave at
\* their initial values
backend_vars == <<name_count, files, copy_queue, unfinished, queue_none,
                  worker, stream, global_cpu_device, global_disk_device, pc,
                  calls, submitted, written>>

BackendInitExceptRegistries ==
    /\ name_count = 0
    /\ files = [n \in 1..(MaxHandles + RTHandles) |-> NoFile]
    /\ copy_queue = [d \in Disks |-> <<>>]
    /\ unfinished = [d \in Disks |-> 0]
    /\ queue_none = [d \in Disks |-> FALSE]
    /\ worker = [d \in Disks |-> [t \in Threads |-> [state |-> "idle", item |-> Sentinel]]]
    /\ stream = <<>>
    /\ pc = <<"idle">>
    /\ calls = 0
    /\ submitted = [d \in Disks |-> {}]
    /\ written = {}

BackendInit ==
    /\ BackendInitExceptRegistries
    /\ global_cpu_device = CPU
    /\ global_disk_device = "disk"

\* the tensor read along SEG_DIM: a TorchMixedDevice tensor is the
\* concatenation of its sub-tensors (data[0]) in the order of seg_points
RECURSIVE Concat(_)
Concat(q) == IF q = <<>> THEN <<>> ELSE Head(q) \o Concat(Tail(q))

Flat(t) == IF t.device = MIXED THEN Concat(t.data.tensors) ELSE t.data
FlatCnt(t) == IF t.device = MIXED THEN Concat(t.cnt) ELSE t.cnt

\* the contents tensors start with: zeros, the position of each element, or
\* what torch.empty left there
Zero(j) == 0
Position(j) == j
Fill(fill, j) ==
    CASE fill = "Zero" -> Zero(j)
      [] fill = "Position" -> Position(j)
      [] fill = "Uninit" -> Uninit(j)

\* a tensor on the host whose element at position j is Fill(fill, j)
PlainTensor(n, fill) ==
    [device |-> CPU, data |-> [j \in 1..n |-> Fill(fill, j)],
     cnt |-> [j \in 1..n |-> 0]]

\* what TorchMixedDevice.allocate(shape, dtype, lens) returns: data is
\* (tensors, seg_points); a segment of length 0 holds no elements, and its
\* slot of tensors is None instead of a TorchTensor (is_none)
MixedTensor(lens, fill) ==
    LET sp == seg_points_of(lens)
    IN  [device |-> MIXED,
         data |-> [tensors |-> [i \in 1..Len(lens) |->
                                   [k \in 1..lens[i] |-> Fill(fill, sp[i] + k)]],
                   seg_points |-> sp,
                   is_none |-> [i \in 1..Len(lens) |-> sp[i + 1] - sp[i] = 0]],
         cnt |-> [i \in 1..Len(lens) |-> [k \in 1..lens[i] |-> 0]]]

SegLens == {l \in [1..NumBase -> 0..MaxSegLen] : SumSeq(l) >= 1}
Slices(n) == {sl \in [start : 0..n, stop : 0..n] : sl.start < sl.stop}

\* general_copy(dst, dst_indices, src, src_indices) about to run, with dst
\* (side = "dst") or src (side = "src") on a TorchMixedDevice
SegInit ==
    /\ BackendInit
    /\ \E lens \in SegLens, side \in {"dst", "src"} :
          LET n == SumSeq(lens)
          IN  /\ tensors = IF side = "dst"
                           THEN <<MixedTensor(lens, "Zero"), PlainTensor(n, "Position")>>
                           ELSE <<PlainTensor(n, "Zero"), MixedTensor(lens, "Position")>>
              /\ \E di \in Slices(n), si \in Slices(n) :
                    /\ di.stop - di.start = si.stop - si.start
                    /\ rt = [pc |-> "loop", side |-> side, i |-> 1,
                             dst_indices |-> di, src_indices |-> si]
    /\ last = Ret("general_copy", 2, None, 1, "pending")

seg_points == tensors[IF rt.side = "dst" THEN 1 ELSE 2].data.seg_points

\* the indices of the i-th recursive call
tmp_src_indices(i) ==
    cut_indices(rt.src_indices, seg_points[i], seg_points[i + 1],
                IF rt.side = "src" THEN seg_points[i] ELSE 0)
tmp_dst_indices(i) ==
    cut_indices(rt.dst_indices, seg_points[i], seg_points[i + 1],
                IF rt.side = "dst" THEN seg_points[i] ELSE 0)

SegAdvance(err) ==
    IF err # "" THEN /\ rt' = [rt EXCEPT !.pc = "failed"]
                     /\ last' = [last EXCEPT !.err = err]
    ELSE IF rt.i = Len(seg_points) - 1
    THEN /\ rt' = [rt EXCEPT !.pc = "done"]
         /\ last' = [last EXCEPT !.err = ""]
    ELSE /\ rt' = [rt EXCEPT !.i = @ + 1]
         /\ UNCHANGED last

\* one iteration of the loop over base_devices: an empty segment is skipped
SegSkip ==
    /\ rt.pc = "loop"
    /\ seg_points[rt.i] = seg_points[rt.i + 1]
    /\ SegAdvance("")
    /\ UNCHANGED tensors
    /\ UNCHANGED backend_vars

\* one iteration of the loop over base_devices: the recursive general_copy
\* on the i-th sub-tensor, its copy done
SegSubCopy ==
    /\ rt.pc = "loop"
    /\ seg_points[rt.i] # seg_points[rt.i + 1]
    /\ LET i == rt.i
           dst == tensors[1]
           src == tensors[2]
           r == IF rt.side = "dst"
                THEN copy_into(dst.data.tensors[i], dst.cnt[i], tmp_dst_indices(i),
                               src.data, tmp_src_indices(i))
                ELSE copy_into(dst.data, dst.cnt, tmp_dst_indices(i),
                               src.data.tensors[i], tmp_src_indices(i))
       IN  /\ tensors' = IF rt.side = "dst"
                         THEN [tensors EXCEPT ![1].data.tensors[i] = r.data,
                                              ![1].cnt[i] = r.cnt]
                         ELSE [tensors EXCEPT ![1].data = r.data,
                                              ![1].cnt = r.cnt]
           /\ SegAdvance(r.err)
    /\ UNCHANGED backend_vars

SegNext == SegSkip \/ SegSubCopy

SegSpec == SegInit /\ [][SegNext]_vars

\* ------------------------------------------- TorchMixedDevice.allocate
\* TorchMixedDevice.allocate(shape, dtype, seg_lengths) on a device with
\* nbase base_devices, size = shape[SEG_DIM]: the two assertions, then one
\* sub-tensor per base device
TorchMixedDevice_allocate(nbase, size, lens) ==
    IF SumSeq(lens) # size \/ Len(lens) # nbase
    THEN [err |-> "AssertionError", tensors |-> <<>>]
    ELSE [err |-> "", tensors |-> <<MixedTensor(lens, "Uninit")>>]

\* the split of the scenario in the specification: 50/30/20 over 100
ScenarioLens == <<50, 30, 20>>

AllocLens ==
    UNION {[1..n -> 0..MaxSegLen] : n \in 1..(NumBase + 1)} \cup {ScenarioLens}

\* a client about to call mixed.allocate
MixedAllocInit ==
    /\ BackendInit
    /\ tensors = <<>>
    /\ last = Ret("init", 0, None, 0, "")
    /\ \E nbase \in 1..(NumBase + 1), lens \in AllocLens,
          size \in 0..((NumBase + 1) * MaxSegLen) \cup {SumSeq(ScenarioLens)} :
          rt = [pc |-> "call", nbase |-> nbase, size |-> size,
                seg_lengths |-> lens]

MixedAllocate ==
    /\ rt.pc = "call"
    /\ LET r == TorchMixedDevice_allocate(rt.nbase, rt.size, rt.seg_lengths)
       IN  /\ tensors' = r.tensors
           /\ last' = Ret("allocate", 0, MIXED, Len(r.tensors), r.err)
    /\ rt' = [rt EXCEPT !.pc = "returned"]
    /\ UNCHANGED backend_vars

MixedAllocNext == MixedAllocate

MixedAllocSpec == MixedAllocInit /\ [][MixedAllocNext]_vars

\* ------------------------------------------------- two tasks on one queue
\* A client that allocates two source tensors and a destination, one side on
\* the Disk backend, submits general_copy(dst, src1) and general_copy(dst,
\* src2) with no synchronize in between, then calls disk.synchronize().  The
\* TorchDisk was built with num_copy_threads = rt.workers.
OrdInit ==
    /\ tensors = <<>>
    /\ name_count = 0
    /\ files = [n \in 1..(MaxHandles + RTHandles) |-> NoFile]
    /\ copy_queue = [d \in Disks |-> <<>>]
    /\ unfinished = [d \in Disks |-> 0]
    /\ queue_none = [d \in Disks |-> FALSE]
    /\ stream = <<>>
    /\ global_cpu_device = CPU
    /\ global_disk_device = "disk"
    /\ pc = <<"idle">>
    /\ calls = 0
    /\ last = Ret("init", 0, None, 0, "")
    /\ submitted = [d \in Disks |-> {}]
    /\ written = {}
    /\ \E n \in 1..(NumCopyThreads + 1), sd \in DataBackends, dd \in DataBackends,
          k \in 1..MaxShape0 :
          /\ (sd \in Disks) # (dd \in Disks)
          /\ worker = [d \in Disks |-> [t \in 1..n |->
                          [state |-> "idle", item |-> Sentinel]]]
          /\ rt = [pc |-> "alloc", workers |-> n, src_dev |-> sd,
                   dst_dev |-> dd, shape0 |-> k]

\* src1, src2, dst in this order
OrdAllocate ==
    /\ rt.pc = "alloc"
    /\ Allocate(IF Len(tensors) < 2 THEN rt.src_dev ELSE rt.dst_dev,
                rt.shape0, FALSE)
    /\ rt' = IF Len(tensors) = 2 THEN [rt EXCEPT !.pc = "copy"] ELSE rt
    /\ UNCHANGED calls

\* general_copy(dst, None, src1, None), then general_copy(dst, None, src2, None)
OrdCopy ==
    /\ rt.pc = "copy"
    /\ GeneralCopy(3, NumSubmitted + 1)
    /\ rt' = IF NumSubmitted = 1 THEN [rt EXCEPT !.pc = "sync"] ELSE rt
    /\ UNCHANGED calls

OrdSynchronizeCall ==
    /\ rt.pc = "sync"
    /\ DiskSynchronizeCall(global_disk_device)
    /\ rt' = [rt EXCEPT !.pc = "join"]
    /\ UNCHANGED calls

OrdSynchronizeReturn ==
    /\ rt.pc = "join"
    /\ DiskSynchronizeReturn(global_disk_device)
    /\ rt' = [rt EXCEPT !.pc = "done"]
    /\ UNCHANGED calls

OrdNext ==
    \/ OrdAllocate
    \/ OrdCopy
    \/ OrdSynchronizeCall
    \/ OrdSynchronizeReturn
    \/ \E d \in Disks : \E t \in DOMAIN worker[d] :
          WorkerGet(d, t) /\ UNCHANGED <<calls, rt>>
    \/ \E d \in Disks : \E t \in DOMAIN worker[d] :
          WorkerExec(d, t) /\ UNCHANGED <<calls, rt>>

OrderSpec == OrdInit /\ [][OrdNext]_vars

\* ------------------------------------------ the gather of sparse decode
\* general_copy(v_buf, indices_tgt, v_home, indices_src) with indices_src the
\* tensor topk_indices of more than one element.  The queued branches hand
\* the indices to the worker (map_to_torch_tensor gathers with them); the
\* "pin" and "direct" branches evaluate `if src_indices`, and the truth value
\* of a tensor with more than one element raises RuntimeError.
general_copy_gather(tens, dst, src) ==
    LET c == general_copy_case(tens, dst, src)
        g == general_copy(tens, dst, src)
    IN  IF c \in {"pin", "direct"}
        THEN [g EXCEPT !.err = "RuntimeError", !.tensors = tens,
                       !.stream = stream]
        ELSE g

\* _sparse_attention_value from the gather on: v_home holds the value cache
\* (loaded with rt.v), v_buf is the staging buffer.  No copy of the gather
\* reaches the CUDA stream: every branch that would issue one raises first.
GatherInit ==
    /\ InitBase
    /\ \E home \in DataBackends, buf \in {CUDA, CPU}, pin \in BOOLEAN,
          n \in 1..MaxShape0, v \in Vals :
          /\ buf # CPU => pin = FALSE
          /\ rt = [pc |-> "home", v_home |-> home, v_buf |-> buf, pin |-> pin,
                   n |-> n, v |-> v]

\* the value cache v_home and its contents
GatherHome ==
    /\ \/ /\ rt.pc = "home"
          /\ Allocate(rt.v_home, rt.n, FALSE)
          /\ rt' = [rt EXCEPT !.pc = "load"]
       \/ /\ rt.pc = "load"
          /\ load_from_np(1, rt.v)
          /\ rt' = [rt EXCEPT !.pc = "buf"]
    /\ UNCHANGED calls

\* the staging buffer v_buf: self.allocate, or the workspace the caller passes
GatherBuf ==
    /\ rt.pc = "buf"
    /\ Allocate(rt.v_buf, rt.n, rt.pin)
    /\ rt' = [rt EXCEPT !.pc = "copy"]
    /\ UNCHANGED calls

\* general_copy(v_buf, indices_tgt, v_home, indices_src)
GatherCopy ==
    /\ rt.pc = "copy"
    /\ Idle
    /\ LET g == general_copy_gather(tensors, 2, 1)
       IN  /\ tensors' = g.tensors
           /\ copy_queue' = g.copy_queue
           /\ unfinished' = g.unfinished
           /\ submitted' = g.submitted
           /\ stream' = g.stream
           /\ last' = Ret("general_copy", 1, 2, 0, g.err)
           /\ rt' = [rt EXCEPT !.pc = IF g.err = "" THEN "sync" ELSE "failed"]
    /\ UNCHANGED <<name_count, files, queue_none, worker, global_cpu_device, global_disk_device,
                   pc, written, calls>>

\* v_home.device.synchronize(): TorchDisk.synchronize for a Disk cache,
\* TorchDevice.synchronize otherwise
GatherSynchronize ==
    /\ \/ /\ rt.pc = "sync"
          /\ IF DeviceType(rt.v_home) = "DISK"
             THEN DiskSynchronizeCall(rt.v_home)
             ELSE DeviceSynchronizeCall
          /\ rt' = [rt EXCEPT !.pc = "wait"]
       \/ /\ rt.pc = "wait"
          /\ IF DeviceType(rt.v_home) = "DISK"
             THEN DiskSynchronizeReturn(rt.v_home)
             ELSE DeviceSynchronizeReturn
          /\ rt' = [rt EXCEPT !.pc = "read"]
    /\ UNCHANGED calls

\* v = v_buf.data[:topk+1]: the staging buffer is read
GatherRead ==
    /\ rt.pc = "read"
    /\ Idle
    /\ last' = Ret("read", 2, None, Contents(2), "")
    /\ rt' = [rt EXCEPT !.pc = "done"]
    /\ UNCHANGED <<tensors, name_count, files, copy_queue, unfinished,
                   queue_none, worker, stream, global_cpu_device, global_disk_device, pc, calls,
                   submitted, written>>

GatherNext ==
    \/ GatherHome
    \/ GatherBuf
    \/ GatherCopy
    \/ GatherSynchronize
    \/ GatherRead
    \/ \E d \in Disks, t \in Threads : WorkerGet(d, t) /\ UNCHANGED <<calls, rt>>
    \/ \E d \in Disks, t \in Threads : WorkerExec(d, t) /\ UNCHANGED <<calls, rt>>

GatherSpec == GatherInit /\ [][GatherNext]_vars

\* ------------------------------------------------- the default backends
\* Backend objects as the process constructs them, from module import on.
\* rt.built lists the kinds of the objects made so far, the i-th object
\* being "backend<i>"; rt.relay collects the Disk backends a relay copy was put on.
\* the object the next constructor call makes
NewBackend == "backend" \o ToString(Len(rt.built) + 1)

RegistryInit ==
    /\ BackendInitExceptRegistries
    /\ global_cpu_device = None
    /\ global_disk_device = None
    /\ tensors = <<>>
    /\ last = Ret("init", 0, None, 0, "")
    /\ rt = [pc |-> "run", built |-> <<>>, relay |-> {}]

\* TorchDevice.__init__(name): a CPU device registers itself as
\* global_cpu_device
NewTorchDevice(name) ==
    /\ Len(rt.built) < MaxBackends
    /\ rt' = [rt EXCEPT !.built = Append(@, name)]
    /\ global_cpu_device' = IF DeviceType(name) = "CPU"
                            THEN NewBackend
                            ELSE global_cpu_device
    /\ last' = Ret("TorchDevice", 0, name, NewBackend, "")
    /\ UNCHANGED <<tensors, name_count, files, copy_queue, unfinished,
                   queue_none, worker, stream, global_disk_device, pc, calls,
                   submitted, written>>

\* TorchDisk.__init__(path): registers itself as global_disk_device
NewTorchDisk ==
    /\ Len(rt.built) < MaxBackends
    /\ rt' = [rt EXCEPT !.built = Append(@, "disk")]
    /\ global_disk_device' = NewBackend
    /\ last' = Ret("TorchDisk", 0, "disk", NewBackend, "")
    /\ UNCHANGED <<tensors, name_count, files, copy_queue, unfinished,
                   queue_none, worker, stream, global_cpu_device, pc, calls,
                   submitted, written>>

\* general_copy from an accelerator tensor to an unpinned host tensor of
\* shape[0] > 1: global_disk_device.submit_copy(...); with no Disk backend
\* built yet global_disk_device is None and the call raises
RelayCopy ==
    /\ \E i \in 1..Len(rt.built) : rt.built[i] = CUDA
    /\ \E i \in 1..Len(rt.built) : rt.built[i] = CPU
    /\ IF global_disk_device = None
       THEN /\ last' = Ret("general_copy", 0, None, 0, "AttributeError")
            /\ UNCHANGED rt
       ELSE /\ last' = Ret("general_copy", 0, global_disk_device, 0, "")
            /\ rt' = [rt EXCEPT !.relay = @ \cup {global_disk_device}]
    /\ UNCHANGED <<tensors, name_count, files, copy_queue, unfinished,
                   queue_none, worker, stream, global_cpu_device,
                   global_disk_device, pc, calls, submitted, written>>

RegistryNext ==
    \/ \E name \in {CUDA, CPU} : NewTorchDevice(name)
    \/ NewTorchDisk
    \/ RelayCopy

RegistrySpec == RegistryInit /\ [][RegistryNext]_vars

\* ----------------------------------------- top-k selection of sparse decode
\* mutant: top-k taken over all s positions
topk_of_all(num, den, s) == (num * s) \div den

\* topk = int(attn_sparsity * (attn_weights.shape[2] - 1)) for the sparsity
\* num / den >= 0 and s = attn_weights.shape[2]; int() of a non-negative
\* float truncates, which is the floor (the product is taken exactly here)
topk_of(num, den, s) == (num * (s - 1)) \div den

\* attn_weights[:, :, :-1].topk(topk, sorted=False): any topk of the first
\* s - 1 positions such that no position left out weighs more than one taken
topk_indices_of(w, s, k) ==
    {S \in SUBSET (1..(s - 1)) :
        /\ Cardinality(S) = k
        /\ \A i \in S, j \in (1..(s - 1)) \ S : w[i] >= w[j]}

\* _sparse_attention_value called with attention weights w over s positions
\* (the last one the new token) and attn_sparsity = num / den < 1; the
\* history of 10 positions is taken with all weights tied
SparseInit ==
    /\ BackendInit
    /\ tensors = <<>>
    /\ last = Ret("init", 0, None, 0, "")
    /\ \E s \in 1..MaxSeq \cup {10}, den \in 2..MaxDen :
       \E num \in 0..(den - 1), w \in [1..s -> 0..1] :
          /\ s = 10 => \A i \in 1..s : w[i] = 0
          /\ rt = [pc |-> "topk", s |-> s, num |-> num, den |-> den,
                   attn_weights |-> w, topk |-> 0, topk_indices |-> {},
                   v |-> <<>>]

\* the top-k of the historical positions
SparseTopk ==
    /\ rt.pc = "topk"
    /\ LET k == topk_of(rt.num, rt.den, rt.s)
       IN  \E S \in topk_indices_of(rt.attn_weights, rt.s, k) :
              rt' = [rt EXCEPT !.pc = "gather", !.topk = k, !.topk_indices = S]
    /\ UNCHANGED <<tensors, last>>
    /\ UNCHANGED backend_vars

\* k-th smallest first; v = v_buf.data[:topk+1] holds the gathered positions
\* and v[topk:topk+1] = v_new puts the new position last
RECURSIVE Sorted(_)
Sorted(S) == IF S = {} THEN <<>> ELSE <<Nth(S, 1)>> \o Sorted(S \ {Nth(S, 1)})

SparseGather ==
    /\ rt.pc = "gather"
    /\ rt' = [rt EXCEPT !.pc = "done",
                        !.v = Append(Sorted(rt.topk_indices), rt.s)]
    /\ last' = Ret("_sparse_attention_value", 0, None, Len(rt'.v), "")
    /\ UNCHANGED tensors
    /\ UNCHANGED backend_vars

SparseNext == SparseTopk \/ SparseGather

SparseSpec == SparseInit /\ [][SparseNext]_vars

\* ------------------------------------------------ decode policy of mha_gen
\* The cache argument of mha_gen: a handle resident on the accelerator or the
\* host, a handle of the segmented backend (data is the pair (tensors,
\* seg_points)), or the pair of handles _mixed_device_attention indexes as
\* k_cache[0], k_cache[1].
CacheKinds == {"cuda", "cpu", "segmented", "split"}

\* isinstance(k_cache, TorchTensor)
IsTorchTensor(kind) == kind # "split"

\* mutant: the dense branch is never taken
is_dense_never(num, den) == FALSE

\* attn_sparsity >= 1.0 for attn_sparsity = num / den
is_dense(num, den) == num >= den

\* k_new, the key of the new position, and an older cache entry
KNew == "k_new"
KOld == "k_old"

\* mha_gen called with a mask of s positions over a cache of s rows, attention
\* weights w and attn_sparsity = num / den
DecodeInit ==
    /\ BackendInit
    /\ tensors = <<>>
    /\ last = Ret("init", 0, None, {}, "")
    /\ \E kind \in CacheKinds, s \in 1..MaxSeq, den \in 2..MaxDen :
       \E num \in 0..(den + 1), w \in [1..s -> 0..1] :
          rt = [pc |-> "src_s", kind |-> kind, mask_len |-> s, src_s |-> 0,
                num |-> num, den |-> den, attn_weights |-> w,
                k_cache |-> [i \in 1..s |-> KOld], path |-> ""]

\* src_s = min(attention_mask.shape[1], k_cache.shape[0] + 1): a pair of
\* handles has no shape attribute
MhaGenSrcS ==
    /\ rt.pc = "src_s"
    /\ IF rt.kind = "split"
       THEN /\ rt' = [rt EXCEPT !.pc = "done"]
            /\ last' = Ret("mha_gen", 0, None, {}, "AttributeError")
       ELSE /\ rt' = [rt EXCEPT !.pc = "policy",
                         !.src_s = Min(rt.mask_len, Len(rt.k_cache) + 1)]
            /\ UNCHANGED last
    /\ UNCHANGED tensors
    /\ UNCHANGED backend_vars

\* the branches of mha_gen on the cache and attn_sparsity. Dense: the cache
\* rows before the new one are concatenated with k_new (a slice of the data
\* pair of a segmented handle is a tuple, which torch.cat refuses). Sparse:
\* k = k_cache.data[:src_s] is a view of a resident cache, and
\* k[src_s - 1:src_s] = k_new writes the cache row; on the tuple of a
\* segmented handle the assignment raises TypeError. Otherwise the mixed
\* device attention, after assert attn_sparsity >= 1.0.
MhaGenPolicy ==
    /\ rt.pc = "policy"
    /\ IF IsTorchTensor(rt.kind)
       THEN IF is_dense(rt.num, rt.den)
            THEN IF rt.kind = "segmented"
                 THEN /\ rt' = [rt EXCEPT !.pc = "done", !.path = "dense"]
                      /\ last' = Ret("mha_gen", 0, None, {}, "TypeError")
                 ELSE /\ rt' = [rt EXCEPT !.pc = "done", !.path = "dense"]
                      /\ last' = Ret("mha_gen", 0, None, 1..rt.src_s, "")
            ELSE IF rt.kind = "segmented"
                 THEN /\ rt' = [rt EXCEPT !.pc = "done", !.path = "sparse"]
                      /\ last' = Ret("mha_gen", 0, None, {}, "TypeError")
                 ELSE /\ rt' = [rt EXCEPT !.pc = "sparse", !.path = "sparse",
                                          !.k_cache[rt.src_s] = KNew]
                      /\ UNCHANGED last
       ELSE IF is_dense(rt.num, rt.den)
            THEN /\ rt' = [rt EXCEPT !.pc = "done", !.path = "mixed"]
                 /\ last' = Ret("mha_gen", 0, None, 1..rt.src_s, "")
            ELSE /\ rt' = [rt EXCEPT !.pc = "done"]
                 /\ last' = Ret("mha_gen", 0, None, {}, "AssertionError")
    /\ UNCHANGED tensors
    /\ UNCHANGED backend_vars

\* _sparse_attention_value: topk of more than the src_s - 1 historical
\* positions is refused by torch (RuntimeError); the attention is over the
\* selected positions and the new one
MhaGenSparseValue ==
    /\ rt.pc = "sparse"
    /\ LET k == topk_of(rt.num, rt.den, rt.src_s)
       IN  IF k > rt.src_s - 1
           THEN last' = Ret("mha_gen", 0, None, {}, "RuntimeError")
           ELSE \E S \in topk_indices_of(rt.attn_weights, rt.src_s, k) :
                   last' = Ret("mha_gen", 0, None, S \cup {rt.src_s}, "")
    /\ rt' = [rt EXCEPT !.pc = "done"]
    /\ UNCHANGED tensors
    /\ UNCHANGED backend_vars

DecodeNext == MhaGenSrcS \/ MhaGenPolicy \/ MhaGenSparseValue

DecodeSpec == DecodeInit /\ [][DecodeNext]_vars

\* --------------------------------------------------------------- TorchLink
\* The module assigns force_io_time nowhere and imports no such name: the
\* read in io_time finds no binding.
Unbound == "unbound"

LinkEnds == {CUDA, CPU} \cup Disks

\* before TorchLink(a, b, a_to_b_bandwidth, b_to_a_bandwidth)
LinkInit ==
    /\ BackendInit
    /\ tensors = <<>>
    /\ last = Ret("init", None, None, None, "")
    /\ rt = [pc |-> "new", a |-> None, b |-> None, a_to_b_bandwidth |-> 0,
             b_to_a_bandwidth |-> 0, force_io_time |-> Unbound, n |-> 0]

\* TorchLink.__init__
NewTorchLink ==
    /\ rt.pc = "new"
    /\ \E a \in LinkEnds, ab \in 1..MaxBandwidth, ba \in 1..MaxBandwidth :
       \E b \in LinkEnds \ {a} :
          rt' = [rt EXCEPT !.pc = "linked", !.a = a, !.b = b,
                           !.a_to_b_bandwidth = ab, !.b_to_a_bandwidth = ba]
    /\ last' = Ret("TorchLink", None, None, None, "")
    /\ UNCHANGED tensors
    /\ UNCHANGED backend_vars

\* TorchLink.io_time(src, dst, size); size / bandwidth is kept as the pair
\* <<size, bandwidth>>
io_time(link, src, dst, size) ==
    LET after(bandwidth) ==
            IF link.force_io_time = Unbound THEN [ret |-> None, err |-> "NameError"]
            ELSE IF link.force_io_time # None
                 THEN [ret |-> link.force_io_time, err |-> ""]
                 ELSE [ret |-> <<size, bandwidth>>, err |-> ""]
    IN  IF src = link.a
        THEN IF dst = link.b THEN after(link.a_to_b_bandwidth)
             ELSE [ret |-> None, err |-> "AssertionError"]
        ELSE IF src = link.b
             THEN IF dst = link.a THEN after(link.b_to_a_bandwidth)
                  ELSE [ret |-> None, err |-> "AssertionError"]
             ELSE [ret |-> None, err |-> "ValueError"]

IoTime ==
    /\ rt.pc = "linked"
    /\ rt.n < MaxCalls
    /\ \E src \in LinkEnds, dst \in LinkEnds, size \in 1..MaxSize :
          LET r == io_time(rt, src, dst, size)
          IN  last' = Ret("io_time", src, dst, [size |-> size, ret |-> r.ret], r.err)
    /\ rt' = [rt EXCEPT !.n = @ + 1]
    /\ UNCHANGED tensors
    /\ UNCHANGED backend_vars

LinkNext == NewTorchLink \/ IoTime

LinkSpec == LinkInit /\ [][LinkNext]_vars

\* ---------------------------------------------------- dispatch of general_copy
DispatchTiers == {CUDA, CPU, MIXED, COMPRESSED} \cup Disks
BaseTiers == {CUDA, CPU} \cup Disks

\* tensors[1] is dst and tensors[2] is src of one call
\* general_copy(dst, None, src, None); when one of them is on the segmented
\* backend, tensors[2 + i] is its i-th sub-tensor (None for a segment of
\* length 0) and its data is (tensors, seg_points). rt.fixed tells whether
\* fix_recursive_import has bound general_copy_compressed.
DispatchInit ==
    /\ BackendInit
    /\ last = Ret("general_copy", 1, 2, <<>>, "pending")
    /\ \E dd \in DispatchTiers, sd \in DispatchTiers, n \in 1..MaxShape0 :
       \E dp \in BOOLEAN, sp \in BOOLEAN, fixed \in BOOLEAN :
       \E lens \in SegLens, base \in [1..NumBase -> BaseTiers] :
          LET mixed == IF dd = MIXED THEN 1 ELSE IF sd = MIXED THEN 2 ELSE 0
              data(dev, v) ==
                  IF dev = MIXED
                  THEN [tensors |-> [i \in 1..NumBase |->
                                        IF lens[i] = 0 THEN 0 ELSE 2 + i],
                        seg_points |-> seg_points_of(lens)]
                  ELSE v
              sub(i) == IF lens[i] = 0 THEN None
                        ELSE NewTensor(base[i], lens[i], mixed - 1, FALSE, 2 + i, TRUE)
          IN  /\ dd # CPU => ~dp
              /\ sd # CPU => ~sp
              /\ (COMPRESSED \notin {dd, sd}) => fixed
              /\ tensors = <<NewTensor(dd, n, data(dd, 0), dp, 1, TRUE),
                             NewTensor(sd, n, data(sd, 1), sp, 2, TRUE)>>
                           \o (IF mixed = 0 THEN <<>>
                               ELSE [i \in 1..NumBase |-> sub(i)])
              /\ rt = [pc |-> "call", mixed |-> mixed, i |-> 1, fixed |-> fixed,
                       taken |-> <<>>, sub_taken |-> <<>>, delegated |-> 0]

\* one general_copy that is not on the segmented backend on either side: the
\* call of general_copy_compressed (None unless fix_recursive_import ran),
\* or one of the queued and direct branches
dispatch_copy(dst, src) ==
    IF general_copy_case(tensors, dst, src) = "compressed"
    THEN [err |-> IF rt.fixed THEN "" ELSE "TypeError", tensors |-> tensors,
          copy_queue |-> copy_queue, unfinished |-> unfinished,
          submitted |-> submitted, stream |-> stream,
          delegated |-> IF rt.fixed THEN 1 ELSE 0]
    ELSE LET r == general_copy(tensors, dst, src)
         IN  [err |-> r.err, tensors |-> r.tensors, copy_queue |-> r.copy_queue,
              unfinished |-> r.unfinished, submitted |-> r.submitted,
              stream |-> r.stream, delegated |-> 0]

DispatchApply(r) ==
    /\ tensors' = r.tensors
    /\ copy_queue' = r.copy_queue
    /\ unfinished' = r.unfinished
    /\ submitted' = r.submitted
    /\ stream' = r.stream
    /\ UNCHANGED <<name_count, files, queue_none, worker, global_cpu_device,
                   global_disk_device, pc, calls, written>>

\* the if / elif chain of the outermost call
DispatchCall ==
    /\ rt.pc = "call"
    /\ LET c == general_copy_case(tensors, 1, 2)
       IN  IF c \in {"mixed_dst", "mixed_src"}
           THEN /\ IF DeviceType(tensors[1].device) = DeviceType(tensors[2].device)
                   THEN /\ rt' = [rt EXCEPT !.pc = "done", !.taken = Append(@, c)]
                        /\ last' = [last EXCEPT !.err = "AssertionError"]
                   ELSE /\ rt' = [rt EXCEPT !.pc = "loop", !.taken = Append(@, c)]
                        /\ UNCHANGED last
                /\ UNCHANGED tensors
                /\ UNCHANGED backend_vars
           ELSE LET r == dispatch_copy(1, 2)
                IN  /\ DispatchApply(r)
                    /\ rt' = [rt EXCEPT !.pc = "done", !.taken = Append(@, c),
                                        !.delegated = @ + r.delegated]
                    /\ last' = [last EXCEPT !.err = r.err]

DispatchAdvance(err) ==
    IF err # "" \/ rt.i = NumBase
    THEN /\ rt' = [rt EXCEPT !.pc = "done"]
         /\ last' = [last EXCEPT !.err = err]
    ELSE /\ rt' = [rt EXCEPT !.i = @ + 1]
         /\ UNCHANGED last

\* an iteration of the loop over base_devices on an empty segment
DispatchSkip ==
    /\ rt.pc = "loop"
    /\ LET sp == tensors[rt.mixed].data.seg_points
       IN  sp[rt.i] = sp[rt.i + 1]
    /\ DispatchAdvance("")
    /\ UNCHANGED tensors
    /\ UNCHANGED backend_vars

\* an iteration of the loop over base_devices: the recursive general_copy
\* with the i-th sub-tensor in the place of the segmented tensor
DispatchSubCopy ==
    /\ rt.pc = "loop"
    /\ LET sp == tensors[rt.mixed].data.seg_points
       IN  sp[rt.i] # sp[rt.i + 1]
    /\ LET h == tensors[rt.mixed].data.tensors[rt.i]
           dst == IF rt.mixed = 1 THEN h ELSE 1
           src == IF rt.mixed = 2 THEN h ELSE 2
           r == dispatch_copy(dst, src)
       IN  /\ DispatchApply(r)
           /\ IF r.err # "" \/ rt.i = NumBase
              THEN /\ rt' = [rt EXCEPT !.pc = "done",
                                !.sub_taken = Append(@, general_copy_case(tensors, dst, src)),
                                !.delegated = @ + r.delegated]
                   /\ last' = [last EXCEPT !.err = r.err]
              ELSE /\ rt' = [rt EXCEPT !.i = @ + 1,
                                !.sub_taken = Append(@, general_copy_case(tensors, dst, src)),
                                !.delegated = @ + r.delegated]
                   /\ UNCHANGED last

DispatchNext == DispatchCall \/ DispatchSkip \/ DispatchSubCopy

DispatchSpec == DispatchInit /\ [][DispatchNext]_vars

\* ------------------------------------------- general_copy with a Disk side
\* A client that allocates a source and a destination, at least one of them
\* on the Disk backend, and then calls general_copy(dst, None, src, None) up
\* to MaxCalls times while the copy threads run; it may shut the backend down
\* with close_copy_threads in between.
SubmitInit ==
    /\ BackendInit
    /\ tensors = <<>>
    /\ last = Ret("init", 0, None, 0, "")
    /\ \E sd \in DataBackends, dd \in DataBackends, k \in 1..MaxShape0 :
          /\ sd \in Disks \/ dd \in Disks
          /\ rt = [pc |-> "alloc", src_dev |-> sd, dst_dev |-> dd,
                   shape0 |-> k, n |-> 0]

\* src, then dst
SubmitAllocate ==
    /\ rt.pc = "alloc"
    /\ Allocate(IF Len(tensors) = 0 THEN rt.src_dev ELSE rt.dst_dev,
                rt.shape0, FALSE)
    /\ rt' = IF Len(tensors) = 1 THEN [rt EXCEPT !.pc = "copy"] ELSE rt
    /\ UNCHANGED calls

SubmitCopy ==
    /\ rt.pc = "copy"
    /\ rt.n < MaxCalls
    /\ GeneralCopy(2, 1)
    /\ rt' = [rt EXCEPT !.n = @ + 1]
    /\ UNCHANGED calls

SubmitClose ==
    /\ rt.pc = "copy"
    /\ ~queue_none[global_disk_device]
    /\ CloseCopyThreadsCall(global_disk_device)
    /\ UNCHANGED <<calls, rt>>

SubmitCloseReturn ==
    /\ CloseCopyThreadsReturn(global_disk_device)
    /\ UNCHANGED <<calls, rt>>

SubmitNext ==
    \/ SubmitAllocate
    \/ SubmitCopy
    \/ SubmitClose
    \/ SubmitCloseReturn
    \/ \E d \in Disks, t \in Threads : WorkerGet(d, t) /\ UNCHANGED <<calls, rt>>
    \/ \E d \in Disks, t \in Threads : WorkerExec(d, t) /\ UNCHANGED <<calls, rt>>

SubmitSpec == SubmitInit /\ [][SubmitNext]_vars

\* ------------------------------- accelerator to host copies of a range
\* indices are None (written <<>>) or a tuple of slices, of which the one of
\* the outer axis is kept; absent indices take the whole tensor
IndexSets(n) == {<<>>} \cup {<<sl>> : sl \in Slices(n)}
RangeOf(ix, n) == IF ix = <<>> THEN [start |-> 0, stop |-> n] ELSE ix[1]
Extent(ix, n) == Cardinality(PySlice(RangeOf(ix, n), n))

\* general_copy(dst, dst_indices, src, src_indices) with src on the
\* accelerator and dst on the host, pinned or not; tensors[1] is dst,
\* tensors[2] is src, the ranges are of equal extent
RangeInit ==
    /\ BackendInit
    /\ last = Ret("init", 0, None, 0, "")
    /\ \E n \in 1..(MaxShape0 + 1), m \in 1..(MaxShape0 + 1), p \in BOOLEAN :
       \E si \in IndexSets(n), di \in IndexSets(m) :
          /\ Extent(si, n) = Extent(di, m)
          /\ tensors = <<[device |-> CPU, pinned |-> p, shape0 |-> m,
                          data |-> [j \in 1..m |-> 0],
                          cnt |-> [j \in 1..m |-> 0]],
                         [device |-> CUDA, pinned |-> FALSE, shape0 |-> n,
                          data |-> [j \in 1..n |-> j],
                          cnt |-> [j \in 1..n |-> 0]]>>
          /\ rt = [pc |-> "call", dst_indices |-> di, src_indices |-> si,
                   case |-> ""]

\* the call: the relay branch hands the copy to global_disk_device's queue;
\* otherwise dst.data[dst_indices].copy_(src.data[src_indices],
\* non_blocking=True), which is on the stream for a pinned destination and
\* done at return for a pageable one
RangeCopy ==
    /\ rt.pc = "call"
    /\ LET c == general_copy_case(tensors, 1, 2)
           q == global_disk_device
           task == [id |-> 1, dst |-> 1, src |-> 2]
           r == copy_into(tensors[1].data, tensors[1].cnt,
                          RangeOf(rt.dst_indices, tensors[1].shape0),
                          tensors[2].data,
                          RangeOf(rt.src_indices, tensors[2].shape0))
       IN  /\ rt' = [rt EXCEPT !.pc = IF c = "relay" THEN "queued" ELSE "done",
                               !.case = c]
           /\ IF c = "relay"
              THEN /\ copy_queue' = [copy_queue EXCEPT ![q] = Append(@, task)]
                   /\ unfinished' = [unfinished EXCEPT ![q] = @ + 1]
                   /\ submitted' = [submitted EXCEPT ![q] = @ \cup {task.id}]
                   /\ UNCHANGED <<tensors, stream>>
              ELSE IF tensors[1].pinned
              THEN /\ stream' = Append(stream, [dst |-> 1, val |-> r.data, src |-> 0])
                   /\ UNCHANGED <<tensors, copy_queue, unfinished, submitted>>
              ELSE /\ tensors' = [tensors EXCEPT ![1].data = r.data,
                                                 ![1].cnt = r.cnt]
                   /\ UNCHANGED <<stream, copy_queue, unfinished, submitted>>
           /\ last' = Ret("general_copy", 2, 1, 0, "")
    /\ UNCHANGED <<name_count, files, queue_none, worker, global_cpu_device,
                   global_disk_device, pc, calls, written>>

\* copy_worker_func on the relayed task: both sides mapped with their
\* indices, the source staged in the pinned buffer, then copied to dst
RangeWorkerExec(d, t) ==
    /\ rt.pc = "queued"
    /\ worker[d][t].state = "busy"
    /\ LET r == copy_into(tensors[1].data, tensors[1].cnt,
                          RangeOf(rt.dst_indices, tensors[1].shape0),
                          tensors[2].data,
                          RangeOf(rt.src_indices, tensors[2].shape0))
       IN  tensors' = [tensors EXCEPT ![1].data = r.data, ![1].cnt = r.cnt]
    /\ written' = written \cup {worker[d][t].item.id}
    /\ unfinished' = [unfinished EXCEPT ![d] = @ - 1]
    /\ worker' = [worker EXCEPT ![d][t] = [state |-> "idle", item |-> Sentinel]]
    /\ rt' = [rt EXCEPT !.pc = "done"]
    /\ UNCHANGED <<name_count, files, copy_queue, queue_none, stream,
                   global_cpu_device, global_disk_device, pc, calls, last,
                   submitted>>

RangeNext ==
    \/ RangeCopy
    \/ \E d \in Disks, t \in Threads : WorkerGet(d, t) /\ UNCHANGED <<calls, rt>>
    \/ \E d \in Disks, t \in Threads : RangeWorkerExec(d, t)

RangeSpec == RangeInit /\ [][RangeNext]_vars

\* ------------------------------------------------------------- cut_indices
\* Segment dimension for tensors stored on TorchMixedDevice
SEG_DIM == 1

\* a slice(start, stop) or slice(start, stop, 2) over an axis of 0..MaxAxis;
\* step is <<>> for None
AxisSlices ==
    {[start |-> sl.start, stop |-> sl.stop, step |-> st] :
        sl \in Slices(MaxAxis), st \in {<<>>, <<2>>}}

\* mutant: the first axis is cut
cut_indices_axis0(indices, start, stop, base) ==
    [k \in 1..Len(indices) |->
        IF k = 1
        THEN [start |-> Max(indices[k].start, start) - base,
              stop |-> Min(indices[k].stop, stop) - base, step |-> <<>>]
        ELSE indices[k]]

\* cut_indices(indices, start, stop, base) on the whole tuple, the assertion
\* on the steps passed: axis SEG_DIM (counted from 0) is replaced
cut_indices_tuple(indices, start, stop, base) ==
    [k \in 1..Len(indices) |->
        IF k = SEG_DIM + 1
        THEN LET seg == cut_indices(indices[k], start, stop, base)
             IN  [start |-> seg.start, stop |-> seg.stop, step |-> <<>>]
        ELSE indices[k]]

\* before cut_indices(rt.indices, rt.start, rt.stop, base=rt.base): indices of
\* two or three axes (a third axis sliced as the first), at most one slice
\* with a step, base 0 or the start of the segment
CutInit ==
    /\ BackendInit
    /\ tensors = <<>>
    /\ last = Ret("init", 0, None, <<>>, "")
    /\ \E n \in 2..3, seg \in Slices(MaxAxis) :
       \E ix \in [1..n -> AxisSlices], b \in {0, seg.start} :
          /\ Cardinality({k \in 1..n : ix[k].step # <<>>}) <= 1
          /\ \A k \in 1..n : ix[k].step # <<>> => ix[k].start = 0
          /\ \A k \in 1..n : k > SEG_DIM + 1 => ix[k] = ix[1]
          /\ rt = [pc |-> "call", indices |-> ix, start |-> seg.start,
                   stop |-> seg.stop, base |-> b]

CutIndices ==
    /\ rt.pc = "call"
    /\ last' = IF \E k \in DOMAIN rt.indices : rt.indices[k].step # <<>>
               THEN Ret("cut_indices", 0, None, <<>>, "AssertionError")
               ELSE Ret("cut_indices", 0, None,
                        cut_indices_tuple(rt.indices, rt.start, rt.stop, rt.base),
                        "")
    /\ rt' = [rt EXCEPT !.pc = "done"]
    /\ UNCHANGED tensors
    /\ UNCHANGED backend_vars

CutNext == CutIndices

CutSpec == CutInit /\ [][CutNext]_vars

\* ------------------------- TorchMixedDevice.init_cache_one_gpu_batch
\* mutant: the lengths are not rounded to a multiple of num_head
init_cache_lens_unrounded(num_head, size, gpu, cpu, disk) ==
    IF disk = 0
    THEN LET len_gpu == (size * gpu) \div 100
         IN  <<len_gpu, size - len_gpu, 0>>
    ELSE LET len_gpu == (size * gpu) \div 100
             len_cpu == (size * cpu) \div 100
         IN  <<len_gpu, len_cpu, size - len_gpu - len_cpu>>

\* lens of init_cache_one_gpu_batch for size = shape[SEG_DIM] =
\* gpu_batch_size * num_head and the policy's cache percentages; int() of the
\* non-negative quotient is its floor
init_cache_lens(num_head, size, gpu, cpu, disk) ==
    IF disk = 0
    THEN LET len_gpu == (((size * gpu) \div 100) \div num_head) * num_head
         IN  <<len_gpu, size - len_gpu, 0>>
    ELSE LET len_gpu == (((size * gpu) \div 100) \div num_head) * num_head
             len_cpu == (((size * cpu) \div 100) \div num_head) * num_head
         IN  <<len_gpu, len_cpu, size - len_gpu - len_cpu>>

\* a TorchMixedDevice over (gpu, cpu, disk) about to build the cache of one
\* GPU batch: any n_head and gpu_batch_size, any whole percentages summing
\* to 100
CacheInit ==
    /\ BackendInit
    /\ tensors = <<>>
    /\ last = Ret("init", 0, None, 0, "")
    /\ \E h \in 1..MaxHeads, b \in 1..MaxBatch, g \in 0..100, c \in 0..100 :
          /\ g + c <= 100
          /\ rt = [pc |-> "lens", num_head |-> h, gpu_batch_size |-> b,
                   cache_gpu_percent |-> g, cache_cpu_percent |-> c,
                   cache_disk_percent |-> 100 - g - c, lens |-> <<>>]

CacheLens ==
    /\ rt.pc = "lens"
    /\ rt' = [rt EXCEPT !.pc = "k_cache",
                !.lens = init_cache_lens(rt.num_head,
                                         rt.gpu_batch_size * rt.num_head,
                                         rt.cache_gpu_percent,
                                         rt.cache_cpu_percent,
                                         rt.cache_disk_percent)]
    /\ UNCHANGED <<tensors, last>>
    /\ UNCHANGED backend_vars

\* k_cache = self.allocate(shape, np.float16, seg_lengths=lens, ...), then
\* v_cache likewise
CacheAllocate ==
    /\ rt.pc \in {"k_cache", "v_cache"}
    /\ LET r == TorchMixedDevice_allocate(3, rt.gpu_batch_size * rt.num_head,
                                          rt.lens)
       IN  /\ tensors' = tensors \o r.tensors
           /\ last' = Ret("allocate", 0, MIXED, Len(tensors) + 1, r.err)
           /\ rt' = [rt EXCEPT !.pc = IF r.err # "" THEN "failed"
                                      ELSE IF rt.pc = "k_cache" THEN "v_cache"
                                      ELSE "done"]
    /\ UNCHANGED backend_vars

CacheNext == CacheLens \/ CacheAllocate

CacheSpec == CacheInit /\ [][CacheNext]_vars

\* ------------------------- TorchDevice attention compute workspace
\* mutant: one workspace when the layers are fused, two when separate
workspace_count_swapped(sep_layer) == IF sep_layer THEN 2 ELSE 1

\* range(1 if policy.sep_layer else 2)
workspace_count(sep_layer) == IF sep_layer THEN 1 ELSE 2

\* the (k_cache, v_cache) pairs the loop of init_attention_compute_workspace
\* appends, each buffer a fresh allocation numbered after the count
\* allocations made before
workspace_pairs(sep_layer, count) ==
    [i \in 1..workspace_count(sep_layer) |->
        <<count + 2 * i - 1, count + 2 * i>>]

\* a TorchDevice after __init__: attention_compute_workspace = None,
\* workspace_pt = 0; policy.compress_cache is False throughout
WorkspaceInit ==
    /\ BackendInit
    /\ tensors = <<>>
    /\ last = Ret("init", 0, None, 0, "")
    /\ \E d \in {CPU, CUDA} :
          rt = [device_type |-> d, workspace_none |-> TRUE,
                attention_compute_workspace |-> <<>>, workspace_pt |-> 0,
                count |-> 0, n |-> 0, returned |-> <<>>]

InitAttentionComputeWorkspace(sep_layer) ==
    /\ rt.n < MaxRingCalls
    /\ IF rt.device_type # CPU
       THEN rt' = [rt EXCEPT !.n = @ + 1]
       ELSE rt' = [rt EXCEPT !.n = @ + 1,
                     !.workspace_none = FALSE,
                     !.attention_compute_workspace =
                         workspace_pairs(sep_layer, rt.count),
                     !.workspace_pt = 0,
                     !.count = @ + 2 * workspace_count(sep_layer),
                     !.returned = <<>>]
    /\ last' = Ret("init_attention_compute_workspace", 0, sep_layer, None, "")
    /\ UNCHANGED tensors
    /\ UNCHANGED backend_vars

NextAttentionComputeWorkspace ==
    /\ rt.n < MaxRingCalls
    /\ IF rt.workspace_none
       THEN /\ rt' = [rt EXCEPT !.n = @ + 1]
            /\ last' = Ret("next_attention_compute_workspace", 0, None, None,
                           "TypeError")
       ELSE LET pt == (rt.workspace_pt + 1)
                         % Len(rt.attention_compute_workspace)
                ws == rt.attention_compute_workspace[pt + 1]
            IN  /\ rt' = [rt EXCEPT !.n = @ + 1, !.workspace_pt = pt,
                            !.returned = Append(@, ws)]
                /\ last' = Ret("next_attention_compute_workspace", 0, None,
                               ws, "")
    /\ UNCHANGED tensors
    /\ UNCHANGED backend_vars

DelAttentionComputeWorkspace ==
    /\ rt.n < MaxRingCalls
    /\ rt' = [rt EXCEPT !.n = @ + 1, !.workspace_none = TRUE,
                !.attention_compute_workspace = <<>>]
    /\ last' = Ret("del_attention_compute_workspace", 0, None, None, "")
    /\ UNCHANGED tensors
    /\ UNCHANGED backend_vars

\* self.allocate(shape, dtype) of the same device between the ring's calls
WorkspaceAllocate ==
    /\ rt.n < MaxRingCalls
    /\ rt' = [rt EXCEPT !.n = @ + 1, !.count = @ + 1]
    /\ last' = Ret("allocate", 0, None, rt.count + 1, "")
    /\ UNCHANGED tensors
    /\ UNCHANGED backend_vars

WorkspaceNext ==
    \/ \E sep_layer \in BOOLEAN : InitAttentionComputeWorkspace(sep_layer)
    \/ NextAttentionComputeWorkspace
    \/ DelAttentionComputeWorkspace
    \/ WorkspaceAllocate

WorkspaceSpec == WorkspaceInit /\ [][WorkspaceNext]_vars

\* ------------------------- deleting a TorchMixedDevice tensor
\* the base devices of the TorchMixedDevice whose tensors are deleted
MixedDelDevices == <<CUDA, CPU, "disk">>

\* how many of the segments 1..i are not empty
sub_rank(lens, i) == Cardinality({j \in 1..i : lens[j] > 0})

\* TorchMixedDevice.allocate with the sub-tensors as TorchTensor objects of
\* their own: segment i, when not empty, is allocated on base device i and
\* takes the next name; data[0][i] is its handle, 0 standing for None; the
\* tensor of the mixed device is constructed last
TorchMixedDevice_allocate_handles(tens, fl, count, lens) ==
    LET nsub == sub_rank(lens, Len(lens))
        seg(k) == CHOOSE i \in 1..Len(lens) :
                      lens[i] > 0 /\ sub_rank(lens, i) = k
        sub(k) == LET dev == MixedDelDevices[seg(k)]
                  IN  NewTensor(dev, lens[seg(k)],
                                IF DeviceType(dev) = "DISK" THEN count + k
                                ELSE Uninit(count + k),
                                FALSE, count + k, FALSE)
        subs == [i \in 1..Len(lens) |->
                    IF lens[i] = 0 THEN 0 ELSE Len(tens) + sub_rank(lens, i)]
    IN  [tensors |-> tens \o [k \in 1..nsub |-> sub(k)]
                       \o <<NewTensor(MIXED, SumSeq(lens),
                                      [tensors |-> subs,
                                       seg_points |-> seg_points_of(lens)],
                                      FALSE, count + nsub + 1, TRUE)>>,
         files |-> [n \in DOMAIN fl |->
                      IF \E k \in 1..nsub :
                            /\ n = count + k
                            /\ DeviceType(MixedDelDevices[seg(k)]) = "DISK"
                      THEN 0 ELSE fl[n]],
         name_count |-> count + nsub + 1,
         ret |-> Len(tens) + nsub + 1]

\* TorchMixedDevice.delete(tensor): the loop reads self.tensor, an attribute
\* a TorchMixedDevice does not have
TorchMixedDevice_delete(tens, fl, h) ==
    [err |-> "AttributeError", tensors |-> tens, files |-> fl]

MixedDelInit ==
    /\ BackendInit
    /\ tensors = <<>>
    /\ last = Ret("init", 0, None, 0, "")
    /\ rt = [pc |-> "start", h |-> 0, n |-> 0]

MixedDelUnchanged ==
    UNCHANGED <<copy_queue, unfinished, queue_none, worker, stream,
                global_cpu_device, global_disk_device, pc, calls, submitted,
                written>>

\* tensor = mixed.allocate(shape, dtype, seg_lengths=lens)
MixedDelAllocate(lens) ==
    /\ rt.pc = "start"
    /\ LET a == TorchMixedDevice_allocate_handles(tensors, files, name_count,
                                                  lens)
       IN  /\ tensors' = a.tensors
           /\ files' = a.files
           /\ name_count' = a.name_count
           /\ last' = Ret("allocate", 0, MIXED, a.ret, "")
           /\ rt' = [rt EXCEPT !.pc = "allocated", !.h = a.ret]
    /\ MixedDelUnchanged

\* tensor.delete()
MixedDelTensorDelete ==
    /\ rt.pc = "allocated"
    /\ rt.n < MaxCalls
    /\ IF ~delete_asserts(tensors[rt.h])
       THEN /\ last' = Ret("delete", rt.h, None, 0, "AssertionError")
            /\ UNCHANGED <<tensors, files>>
       ELSE LET e == delete_effect(tensors, files, rt.h)
            IN  /\ tensors' = e.tensors
                /\ files' = e.files
                /\ last' = Ret("delete", rt.h, None, 0, "")
    /\ rt' = [rt EXCEPT !.n = @ + 1]
    /\ UNCHANGED name_count
    /\ MixedDelUnchanged

\* mixed.delete(tensor), called on the backend
MixedDelDeviceDelete ==
    /\ rt.pc = "allocated"
    /\ rt.n < MaxCalls
    /\ LET e == TorchMixedDevice_delete(tensors, files, rt.h)
       IN  /\ tensors' = e.tensors
           /\ files' = e.files
           /\ last' = Ret("TorchMixedDevice.delete", rt.h, None, 0, e.err)
    /\ rt' = [rt EXCEPT !.n = @ + 1]
    /\ UNCHANGED name_count
    /\ MixedDelUnchanged

MixedDelNext ==
    \/ \E lens \in [1..Len(MixedDelDevices) -> 0..MaxSegLen] :
          MixedDelAllocate(lens)
    \/ MixedDelTensorDelete
    \/ MixedDelDeviceDelete

MixedDelSpec == MixedDelInit /\ [][MixedDelNext]_vars

\* ------------------------- TorchTensor.next_name and the files of a TorchDisk
\* str(n) of a non-negative integer: its decimal digits
RECURSIVE Decimal(_)
Decimal(n) == IF n < 10 THEN <<n>> ELSE Append(Decimal(n \div 10), n % 10)

\* mutant: every tensor gets the name of the count's first value
next_name_first(count) == <<"t", "_">> \o Decimal(0)

\* TorchTensor.next_name: f"t_{next(cls.name_count)}", count the value
\* next() returns
next_name(count) == <<"t", "_">> \o Decimal(count)

\* the number a generated name carries: int(name[2:])
RECURSIVE DecimalValue(_)
DecimalValue(ds) ==
    IF ds = <<>> THEN 0
    ELSE 10 * DecimalValue(SubSeq(ds, 1, Len(ds) - 1)) + ds[Len(ds)]

NameNumber(name) == DecimalValue(SubSeq(name, 3, Len(name)))

\* names a client passes explicitly: one of its own and ones that look
\* generated
ExplicitNames ==
    {<<"w">>} \cup {next_name(c) : c \in MaxNameStart..(MaxNameStart + 1)}

\* every file name of the run, under the one directory of the TorchDisk
NamePool ==
    ExplicitNames \cup {next_name(c) : c \in 0..(MaxNameStart + MaxNameCalls)}

\* TorchDisk.allocate(shape, dtype, name=name): name = name or next_name();
\* open_memmap(mode="w+") creates the file or truncates the one there
TorchDisk_allocate_named(tens, fl, count, dev, shape0, name) ==
    LET nm == IF name = <<>> THEN next_name(count) ELSE name
    IN  [tensors |-> Append(tens, NewTensor(dev, shape0, nm, FALSE, nm, TRUE)),
         files |-> [fl EXCEPT ![nm] = 0],
         name_count |-> IF name = <<>> THEN count + 1 ELSE count]

\* TorchDevice.allocate(shape, dtype, name=name) through create_from_torch
\* and TorchTensor.__init__: self.name = name or TorchTensor.next_name()
TorchDevice_allocate_named(tens, fl, count, dev, shape0, name) ==
    LET nm == IF name = <<>> THEN next_name(count) ELSE name
    IN  [tensors |-> Append(tens, NewTensor(dev, shape0, Uninit(count), FALSE,
                                            nm, TRUE)),
         files |-> fl,
         name_count |-> IF name = <<>> THEN count + 1 ELSE count]

\* one TorchDisk and one host device in a process whose counter has already
\* handed out any number of names up to MaxNameStart; no file in the
\* directory yet
NameInit ==
    /\ name_count \in 0..MaxNameStart
    /\ files = [nm \in NamePool |-> NoFile]
    /\ tensors = <<>>
    /\ copy_queue = [d \in Disks |-> <<>>]
    /\ unfinished = [d \in Disks |-> 0]
    /\ queue_none = [d \in Disks |-> FALSE]
    /\ worker = [d \in Disks |->
                   [t \in Threads |-> [state |-> "idle", item |-> Sentinel]]]
    /\ stream = <<>>
    /\ global_cpu_device = CPU
    /\ global_disk_device = "disk"
    /\ pc = <<"idle">>
    /\ calls = 0
    /\ submitted = [d \in Disks |-> {}]
    /\ written = {}
    /\ last = Ret("init", 0, None, 0, "")
    /\ rt = [n |-> 0, auto |-> {}]

NameUnchanged ==
    UNCHANGED <<copy_queue, unfinished, queue_none, worker, stream,
                global_cpu_device, global_disk_device, pc, calls, submitted,
                written>>

\* dev.allocate(shape, dtype, name=name); name <<>> stands for None.  rt.auto
\* keeps the handles allocated without a name
NameAllocate(dev, name) ==
    /\ rt.n < MaxNameCalls
    /\ LET a == IF DeviceType(dev) = "DISK"
                THEN TorchDisk_allocate_named(tensors, files, name_count, dev,
                                              1, name)
                ELSE TorchDevice_allocate_named(tensors, files, name_count,
                                                dev, 1, name)
       IN  /\ tensors' = a.tensors
           /\ files' = a.files
           /\ name_count' = a.name_count
    /\ last' = Ret("allocate", 0, dev, Len(tensors) + 1, "")
    /\ rt' = [n |-> rt.n + 1,
              auto |-> IF name = <<>> THEN rt.auto \cup {Len(tensors) + 1}
                       ELSE rt.auto]
    /\ NameUnchanged

\* tensor.delete()
NameDelete(h) ==
    /\ rt.n < MaxNameCalls
    /\ IF ~delete_asserts(tensors[h])
       THEN /\ last' = Ret("delete", h, None, 0, "AssertionError")
            /\ UNCHANGED <<tensors, files>>
       ELSE LET e == delete_effect(tensors, files, h)
            IN  /\ tensors' = e.tensors
                /\ files' = e.files
                /\ last' = Ret("delete", h, None, 0, "")
    /\ rt' = [rt EXCEPT !.n = @ + 1]
    /\ UNCHANGED name_count
    /\ NameUnchanged

NameNext ==
    \/ \E dev \in {CPU} \cup Disks, name \in {<<>>} \cup ExplicitNames :
          NameAllocate(dev, name)
    \/ \E h \in Handles : NameDelete(h)

NameSpec == NameInit /\ [][NameNext]_vars

\* =================================================================== claims
Busy(d) == {t \in Threads : worker[d][t].state = "busy"}
Failed(d) == \E t \in Threads : worker[d][t].state = "raised"
Drained(d) == copy_queue[d] = <<>> /\ Busy(d) = {}
SyncReturned(d) ==
    Idle /\ last.op = "synchronize" /\ last.b = d /\ last.err = ""
BarrierReturned == Idle /\ last.op = "cuda_synchronize"

\* the step in which the caller's call op on handle h finishes
CallStep(op, h) == calls' = calls + 1 /\ last'.op = op /\ last'.a = h

\* C1: every item a copy worker has dequeued and stopped working on, whether
\* the copy succeeded or raised, has been marked complete exactly once: the
\* pending-task counter counts just the items still queued or being copied.
C1_TaskDoneOnFailure ==
    \A d \in Disks : unfinished[d] = Len(copy_queue[d]) + Cardinality(Busy(d))

\* C2: a synchronize() that waits on a queue on which a task failed, with all
\* the other work of that queue finished, completes (and so can report the
\* failure) instead of waiting for ever.
C2_FailureReported ==
    \A d \in Disks :
        (pc = <<"join", d>> /\ Failed(d) /\ Drained(d))
            => ENABLED DiskSynchronizeReturn(d)

\* C3: a copy worker thread has ended only if the last item it dequeued was a
\* shutdown sentinel; a task that raises does not end it.
C3_OnlySentinelTerminates ==
    \A d \in Disks, t \in Threads :
        thread_ended(worker[d][t]) => worker[d][t].item = Sentinel

C5_SingleSynchronize ==
    \A d \in Disks : SyncReturned(d) => (unfinished[d] = 0 /\ stream = <<>>)

\* C5 amended: TorchDisk.synchronize() returns with the pending-task counter
\* at zero and the queue's copies done; the device barrier is the separate
\* TorchDevice.synchronize(), which returns with no non-blocking device copy
\* in flight.
C5_TwoSynchronizes ==
    /\ \A d \in Disks : SyncReturned(d) => (unfinished[d] = 0 /\ Drained(d))
    /\ BarrierReturned => stream = <<>>

C5_Witness ==
    /\ BarrierReturned
    /\ \E g \in Handles, h \in Handles :
          /\ g # h /\ Live(g) /\ DeviceType(tensors[g].device) # "DISK"
          /\ tensors[g].data = Uninit(tensors[h].name)

\* C6: no copy worker ever runs a task against a tensor that was deleted:
\* a worker that raised did not raise over a deleted source or destination.
C6_NoUseAfterFree ==
    \A d \in Disks, t \in Threads :
        worker[d][t].state = "raised" =>
            Live(worker[d][t].item.src) /\ Live(worker[d][t].item.dst)

\* C8: the first delete() of a handle invalidates it; a second delete() fails
\* with the "already deleted" assertion and changes nothing else; copy and
\* move from an invalidated handle fail too.
C8_DeleteTwice ==
    [][\A h \in Handles :
          /\ (Live(h) /\ CallStep("delete", h))
                => (last'.err = "" /\ tensors'[h].device = None)
          /\ (~Live(h) /\ CallStep("delete", h))
                => /\ last'.err = "AssertionError"
                   /\ UNCHANGED <<tensors, name_count, files, copy_queue,
                                  unfinished, queue_none, worker, stream,
                                  global_cpu_device, global_disk_device, pc, submitted, written>>
          /\ (~Live(h) /\ (CallStep("copy", h) \/ CallStep("move", h)))
                => (last'.err # "" /\ last'.ret = 0)
      ]_vars

C8_Witness ==
    /\ last.op = "delete" /\ last.err = "AssertionError"
    /\ ~Live(last.a)

\* C9: delete() of a Disk tensor invalidates the handle, removes the backing
\* file when delete_file is set and leaves the file as it is when it is not.
C9_DiskDelete ==
    [][\A h \in Handles :
          (/\ Live(h)
           /\ DeviceType(tensors[h].device) = "DISK"
           /\ CallStep("delete", h))
             => /\ tensors'[h].device = None
                /\ IF tensors[h].delete_file
                   THEN files'[tensors[h].name] = NoFile
                   ELSE files' = files
      ]_vars

C9_Witness ==
    /\ last.op = "delete" /\ last.err = ""
    /\ ~tensors[last.a].delete_file
    /\ files[tensors[last.a].name] # NoFile

\* C10: move(dst) of a handle already on dst returns that handle and
\* allocates, copies and deletes nothing; move of a valid handle to any other
\* backend (the copy queues still open) allocates a new handle owned by dst,
\* returns it and invalidates the source.
C10_Move ==
    [][\A h \in Handles :
          /\ (CallStep("move", h) /\ last'.err = "")
                => /\ tensors[h].device = last'.b
                   /\ last'.ret = h
                   /\ Live(h)
                   /\ UNCHANGED <<tensors, name_count, files, copy_queue,
                                  unfinished, stream, submitted>>
          /\ (/\ CallStep("move", h)
              /\ Live(h)
              /\ tensors[h].device # last'.b
              /\ \A d \in Disks : ~queue_none[d])
                => /\ last'.err = "pending"
                   /\ last'.ret \notin Handles
                   /\ last'.ret \in 1..Len(tensors')
                   /\ tensors'[last'.ret].device = last'.b
          /\ (pc = <<"move_delete">> /\ last.a = h /\ pc' = <<"idle">>)
                => /\ last'.op = "move" /\ last'.err = ""
                   /\ last'.ret = last.ret /\ last'.ret # h
                   /\ tensors'[last'.ret].device = last.b
                   /\ tensors'[h].device = None
      ]_vars

\* C7: a tensor moved T1 -> T2, synchronized, moved back to T1 and
\* synchronized again ends as a live handle on T1 holding the original
\* contents; the round trip neither raises nor hangs on the way.
C7_RoundTrip ==
    /\ rt.pc = "done" =>
          /\ Live(rt.h)
          /\ tensors[rt.h].device = rt.t1
          /\ Contents(rt.h) = rt.v
    /\ rt.pc # "done" => ENABLED RTNext

\* C11: general_copy with a Segmented destination or source and ranges of
\* equal extent (whatever their offsets): every sub-copy has source and
\* destination sub-ranges of equal extent, none fails, and when the copies are
\* done the destination read along the axis at the destination range equals
\* the source at the source range, each of its elements written exactly once
\* and no element outside the range written.
C11_SegmentedEquivalence ==
    LET di == rt.dst_indices
        si == rt.src_indices
        dst == Flat(tensors[1])
        src == Flat(tensors[2])
        cnt == FlatCnt(tensors[1])
    IN  /\ rt.pc # "failed"
        /\ (rt.pc = "loop" /\ seg_points[rt.i] # seg_points[rt.i + 1])
              => Cardinality(PySlice(tmp_src_indices(rt.i),
                                     IF rt.side = "src"
                                     THEN seg_points[rt.i + 1] - seg_points[rt.i]
                                     ELSE Len(src)))
                 = Cardinality(PySlice(tmp_dst_indices(rt.i),
                                       IF rt.side = "dst"
                                       THEN seg_points[rt.i + 1] - seg_points[rt.i]
                                       ELSE Len(dst)))
        /\ rt.pc = "done"
              => \A j \in 1..Len(dst) :
                    IF di.start < j /\ j <= di.stop
                    THEN /\ dst[j] = src[si.start + (j - di.start)]
                         /\ cnt[j] = 1
                    ELSE cnt[j] = 0

\* C12: allocating a Segmented handle with extents e_1..e_n that sum to the
\* size on the designated axis, one per sub-backend, yields sub-handles of
\* exactly those extents and boundary offsets that start at 0 and grow by e_i
\* (50/30/20 over 100 gives [0,50,80,100]); the allocation fails when the
\* extents do not sum to the size or their number is not that of the
\* sub-backends.
C12_MixedAllocate ==
    rt.pc = "returned" =>
        LET lens == rt.seg_lengths
        IN  IF SumSeq(lens) = rt.size /\ Len(lens) = rt.nbase
            THEN /\ last.err = ""
                 /\ Len(tensors) = 1
                 /\ LET t == tensors[1].data
                    IN  /\ Len(t.tensors) = Len(lens)
                        /\ Len(t.seg_points) = Len(lens) + 1
                        /\ t.seg_points[1] = 0
                        /\ \A i \in 1..Len(lens) :
                              /\ Len(t.tensors[i]) = lens[i]
                              /\ t.seg_points[i + 1] = t.seg_points[i] + lens[i]
                        /\ lens = ScenarioLens => t.seg_points = <<0, 50, 80, 100>>
            ELSE last.err = "AssertionError" /\ tensors = <<>>

C12_Witness ==
    /\ rt.pc = "returned"
    /\ rt.seg_lengths = ScenarioLens
    /\ last.err = ""
    /\ tensors[1].data.seg_points = <<0, 50, 80, 100>>

CloseReturned(d) ==
    Idle /\ last.op = "close_copy_threads" /\ last.b = d /\ last.err = ""

RECURSIVE CountSentinels(_)
CountSentinels(q) ==
    IF q = <<>> THEN 0
    ELSE (IF Head(q) = Sentinel THEN 1 ELSE 0) + CountSentinels(Tail(q))

Exited(d) == {t \in Threads : worker[d][t].state = "exit"}

\* C13: close_copy_threads puts one sentinel per worker on the queue and
\* terminates: while it waits, each worker has taken at most one sentinel;
\* once the workers have nothing left to do it returns; and when it has
\* returned every worker has exited on a sentinel, every task submitted has
\* been executed and the pending-task counter is zero.
C13_Shutdown ==
    \A d \in Disks :
        /\ pc = <<"close", d>>
              => CountSentinels(copy_queue[d]) + Cardinality(Exited(d))
                    = NumCopyThreads
        /\ (pc = <<"close", d>> /\ Busy(d) = {}
              /\ (copy_queue[d] = <<>>
                    \/ \A t \in Threads : worker[d][t].state # "idle"))
              => ENABLED CloseCopyThreadsReturn(d)
        /\ CloseReturned(d)
              => /\ Exited(d) = Threads
                 /\ copy_queue[d] = <<>>
                 /\ unfinished[d] = 0
                 /\ submitted[d] \subseteq written

\* C14: with a single worker the tasks of one queue are executed in the order
\* they were submitted: the second task never writes before the first, and
\* after both the destination holds the second source.  (With two or more
\* workers the reverse order is reachable: C14_Witness.)
C14_SubmissionOrder ==
    rt.workers = 1 =>
        /\ 2 \in written => 1 \in written
        /\ written = {1, 2} => Contents(3) = Contents(2)

\* two workers, both tasks done, synchronize returned, and the destination
\* holds the source of the task submitted first
C14_Witness ==
    /\ rt.workers >= 2
    /\ rt.pc = "done"
    /\ written = {1, 2}
    /\ Contents(1) # Contents(2)
    /\ Contents(3) = Contents(1)

\* C15: in sparse decode the staging buffer is read only after the copy from
\* the value cache into it has completed, whichever branch general_copy took:
\* what the read sees is what the cache held.
C15_GatherAfterCopy ==
    rt.pc = "done" => last.ret = rt.v

\* C16: the default host backend and the default disk backend are set once
\* and never change afterwards, whatever backends are constructed, and every
\* relay copy goes to one and the same Disk backend.
C16_RegistriesSetOnce ==
    [][/\ global_cpu_device # None => global_cpu_device' = global_cpu_device
       /\ global_disk_device # None => global_disk_device' = global_disk_device
       /\ Cardinality(rt'.relay) <= 1
      ]_vars

C19_IoTime ==
    last.op = "io_time" =>
        /\ (last.a = rt.a /\ last.b = rt.b) =>
              /\ last.err = ""
              /\ last.ret.ret = <<last.ret.size, rt.a_to_b_bandwidth>>
        /\ (last.a = rt.b /\ last.b = rt.a) =>
              /\ last.err = ""
              /\ last.ret.ret = <<last.ret.size, rt.b_to_a_bandwidth>>
        /\ last.a \notin {rt.a, rt.b} => last.err # ""

\* C20: the outermost general_copy takes exactly one of the seven cases, the
\* first whose condition holds in the order destination segmented, source
\* segmented, either side encoded, a side on disk, relay, pin, direct; and
\* the transfers made are those of that case only: none for a segmented or
\* encoded case beyond its delegation, one queued task and nothing else for
\* a disk or relay case, one device copy and no queued task for pin and
\* direct.
C20_Cond ==
    LET D == DeviceType(tensors[1].device)
        S == DeviceType(tensors[2].device)
    IN  <<D = "MIXED",
          S = "MIXED",
          D = "COMPRESSED" \/ S = "COMPRESSED",
          D = "DISK" \/ S = "DISK",
          S = "CUDA" /\ D = "CPU" /\ ~tensors[1].pinned /\ tensors[2].shape0 > 1,
          S = "CPU" /\ D = "CUDA" /\ ~tensors[2].pinned,
          TRUE>>

C20_First == CHOOSE i \in 1..7 : C20_Cond[i] /\ \A j \in 1..(i - 1) : ~C20_Cond[j]

C20_CaseNo(c) ==
    CASE c = "mixed_dst" -> 1
      [] c = "mixed_src" -> 2
      [] c = "compressed" -> 3
      [] c \in {"submit_src", "submit_dst"} -> 4
      [] c = "relay" -> 5
      [] c = "pin" -> 6
      [] c = "direct" -> 7
      [] OTHER -> 0

C20_Queued == unfinished["disk"]
C20_Copied == Len(stream) + (IF tensors[1].data = tensors[2].data THEN 1 ELSE 0)

C20_DispatchOrder ==
    rt.pc # "call" =>
        /\ Len(rt.taken) = 1
        /\ C20_CaseNo(rt.taken[1]) = C20_First
        /\ C20_First >= 3 =>
              /\ rt.sub_taken = <<>>
              /\ rt.delegated = (IF C20_First = 3 /\ rt.fixed THEN 1 ELSE 0)
              /\ C20_Queued = (IF C20_First \in {4, 5} THEN 1 ELSE 0)
              /\ C20_Copied = (IF C20_First \in {6, 7} THEN 1 ELSE 0)
        /\ C20_First \in {1, 2} =>
              /\ C20_Queued + Len(stream) + rt.delegated <= Len(rt.sub_taken)
              /\ Len(rt.sub_taken) <= NumBase
              /\ \A k \in 1..Len(rt.sub_taken) :
                    C20_CaseNo(rt.sub_taken[k]) >= 3
              /\ (C20_Cond[1] /\ C20_Cond[2]) =>
                    rt.sub_taken = <<>> /\ last.err = "AssertionError"

C20_Witness ==
    /\ rt.pc = "done"
    /\ last.err = ""
    /\ C20_Cond[3] /\ C20_Cond[4]
    /\ C20_First = 3
    /\ rt.taken = <<"compressed">>
    /\ C20_Queued = 0

\* a step in which a call general_copy(dst, None, src, None) is made and
\* returns
C21_CallStep == rt'.n = rt.n + 1

\* what C21 says of such a call: nothing is copied by the caller, one task
\* (dst, src) goes to the end of the Disk backend's queue, the pending-task
\* counter grows by one, no worker moves and the caller is back
C21_Enqueued ==
    /\ last'.err = ""
    /\ tensors' = tensors /\ files' = files /\ stream' = stream
    /\ Len(copy_queue'["disk"]) = Len(copy_queue["disk"]) + 1
    /\ SubSeq(copy_queue'["disk"], 1, Len(copy_queue["disk"])) = copy_queue["disk"]
    /\ LET task == copy_queue'["disk"][Len(copy_queue'["disk"])]
       IN  task.dst = 2 /\ task.src = 1
    /\ unfinished'["disk"] = unfinished["disk"] + 1
    /\ worker' = worker
    /\ pc' = <<"idle">>

\* C21 as stated: general_copy with a Disk side enqueues one task and
\* returns, whatever the queue length or worker state.
C21_AlwaysEnqueues == [][C21_CallStep => C21_Enqueued]_vars

\* C21 amended: general_copy with a Disk side on a Disk backend whose
\* close_copy_threads has not returned copies nothing in the caller's thread,
\* appends exactly one task to that backend's queue, raises the pending-task
\* counter by one and returns without waiting for any worker, whatever the
\* queue length or worker state.
C21_EnqueuesWhileOpen ==
    [][(C21_CallStep /\ ~queue_none["disk"]) => C21_Enqueued]_vars

\* the second call has returned, its task queued while a worker is busy with
\* the task of the first
C21_Witness ==
    /\ last.op = "general_copy" /\ last.err = ""
    /\ rt.n = 2
    /\ Len(copy_queue["disk"]) = 1
    /\ copy_queue["disk"][1].id = 2
    /\ \E t \in Threads : /\ worker["disk"][t].state = "busy"
                          /\ worker["disk"][t].item.id = 1

\* C22: a copy from an accelerator source to a host destination that is not
\* pinned goes to the worker queue exactly when the range being copied spans
\* more than one outer element; a range of a single outer element is copied
\* directly, with nothing queued.
C22_RelayByExtent ==
    (rt.pc # "call" /\ ~tensors[1].pinned) =>
        LET extent == Extent(rt.src_indices, tensors[2].shape0)
        IN  /\ (1 \in submitted[global_disk_device]) <=> extent > 1
            /\ extent = 1 => rt.case = "direct"

\* a step of the loop over the base devices of a segmented destination that
\* issues the sub-copy into sub-tensor rt.i
C23_SubCopyIssued ==
    /\ rt.pc = "loop" /\ rt.side = "dst"
    /\ seg_points[rt.i] # seg_points[rt.i + 1]
    /\ rt' # rt

\* C23: a sub-copy into sub-handle i of a segmented destination is issued
\* only when the destination range meets [b_i, b_i+1), and its range, re-based
\* to the sub-handle, satisfies 0 <= start < stop <= the sub-handle's extent;
\* a sub-handle the range meets is not passed over.
C23_SubCopyIffIntersects ==
    [][/\ C23_SubCopyIssued =>
             LET b == seg_points[rt.i]
                 e == seg_points[rt.i + 1]
                 sub == tmp_dst_indices(rt.i)
             IN  /\ Max(rt.dst_indices.start, b) < Min(rt.dst_indices.stop, e)
                 /\ 0 <= sub.start /\ sub.start < sub.stop /\ sub.stop <= e - b
       /\ (rt.pc = "loop" /\ rt.side = "dst" /\ rt' # rt /\ ~C23_SubCopyIssued) =>
             ~(Max(rt.dst_indices.start, seg_points[rt.i])
                 < Min(rt.dst_indices.stop, seg_points[rt.i + 1]))
      ]_vars

\* the positions of the segmentation axis that lie both in the input interval
\* and in [start, stop)
C24_Overlap ==
    {x \in 0..MaxAxis :
        /\ rt.indices[SEG_DIM + 1].start <= x /\ x < rt.indices[SEG_DIM + 1].stop
        /\ rt.start <= x /\ x < rt.stop}

\* C24: the result of cut_indices has the input's slice on every axis but
\* the segmentation axis; there its interval holds exactly the positions of
\* the input interval that lie in [start, stop), each lowered by base; no
\* slice of the result has a step; so for an overlapping input its extent is
\* the size of the overlap.
C24_CutIndices ==
    (last.op = "cut_indices" /\ last.err = "") =>
        LET r == last.ret
            seg == r[SEG_DIM + 1]
        IN  /\ Len(r) = Len(rt.indices)
            /\ \A k \in 1..Len(r) : k # SEG_DIM + 1 => r[k] = rt.indices[k]
            /\ {x \in (0 - MaxAxis)..MaxAxis : seg.start <= x /\ x < seg.stop}
                  = {y - rt.base : y \in C24_Overlap}
            /\ \A k \in 1..Len(r) : r[k].step = <<>>
            /\ C24_Overlap # {} => seg.stop - seg.start = Cardinality(C24_Overlap)

\* three axes, a cut with a base above 0 that keeps part of the input interval
C24_Witness ==
    /\ last.op = "cut_indices" /\ last.err = ""
    /\ Len(rt.indices) = 3
    /\ rt.base > 0
    /\ C24_Overlap # {}
    /\ Cardinality(C24_Overlap)
          < rt.indices[SEG_DIM + 1].stop - rt.indices[SEG_DIM + 1].start
    /\ last.ret[1] # last.ret[SEG_DIM + 1]

\* C25 as stated: the boundary offsets of an allocated segmented handle are
\* strictly increasing from 0 to the size on the segmentation axis, and every
\* slot holds a live sub-handle.
C25_StrictlyIncreasing ==
    (rt.pc = "returned" /\ last.err = "") =>
        LET t == tensors[1].data
            n == Len(t.seg_points)
        IN  /\ t.seg_points[1] = 0
            /\ t.seg_points[n] = rt.size
            /\ \A i \in 1..(n - 1) : t.seg_points[i] < t.seg_points[i + 1]
            /\ \A i \in 1..(n - 1) : ~t.is_none[i]

\* C25 amended: the boundary offsets of an allocated segmented handle are
\* non-decreasing from 0 to the size on the segmentation axis; the slot of a
\* segment of positive extent holds a live sub-handle of that extent, and the
\* slot of a segment of extent 0 holds none.
C25_NonDecreasing ==
    (rt.pc = "returned" /\ last.err = "") =>
        LET t == tensors[1].data
            n == Len(t.seg_points)
        IN  /\ t.seg_points[1] = 0
            /\ t.seg_points[n] = rt.size
            /\ \A i \in 1..(n - 1) : t.seg_points[i] <= t.seg_points[i + 1]
            /\ \A i \in 1..(n - 1) :
                  IF t.seg_points[i] < t.seg_points[i + 1]
                  THEN /\ ~t.is_none[i]
                       /\ Len(t.tensors[i]) = t.seg_points[i + 1] - t.seg_points[i]
                  ELSE t.is_none[i]

\* an allocation with an empty segment between two that are not
C25_Witness ==
    /\ rt.pc = "returned" /\ last.err = ""
    /\ Len(rt.seg_lengths) = 3
    /\ tensors[1].data.is_none = <<FALSE, TRUE, FALSE>>
    /\ tensors[1].data.seg_points[2] = tensors[1].data.seg_points[3]

\* C26: for percentages summing to 100 the partition of the cache has three
\* non-negative extents that sum to gpu_batch_size * num_head, the
\* accelerator extent a multiple of num_head and, when the disk percentage is
\* not 0, the host extent too; both allocations succeed, and the key cache and
\* the value cache have the same partition.
C26_CachePartition ==
    /\ rt.pc # "failed"
    /\ rt.pc # "lens" =>
          /\ Len(rt.lens) = 3
          /\ \A i \in 1..3 : rt.lens[i] >= 0
          /\ rt.lens[1] + rt.lens[2] + rt.lens[3]
                = rt.gpu_batch_size * rt.num_head
          /\ rt.lens[1] % rt.num_head = 0
          /\ rt.cache_disk_percent # 0 => rt.lens[2] % rt.num_head = 0
    /\ rt.pc = "done" =>
          /\ Len(tensors) = 2
          /\ tensors[1].data.seg_points = tensors[2].data.seg_points
          /\ \A i \in 1..3 :
                /\ Len(tensors[1].data.tensors[i]) = rt.lens[i]
                /\ Len(tensors[2].data.tensors[i]) = rt.lens[i]

\* both caches allocated for a split that leaves something on all three
\* tiers, the percentages not matching multiples of num_head
C26_Witness ==
    /\ rt.pc = "done"
    /\ \A i \in 1..3 : rt.lens[i] > 0
    /\ (rt.gpu_batch_size * rt.num_head * rt.cache_gpu_percent) % (100 * rt.num_head) # 0
    /\ rt.num_head > 1


\* the ring as a set of buffer pairs
C27_Ring == {rt.attention_compute_workspace[i] :
                i \in 1..Len(rt.attention_compute_workspace)}

\* the state part: size of the ring, range of the index, and every n
\* consecutive returns of a ring of n pairs are the n pairs, once each
C27_RingState ==
    /\ (last.op = "init_attention_compute_workspace" /\ rt.device_type = CPU) =>
          /\ ~rt.workspace_none
          /\ Len(rt.attention_compute_workspace) = (IF last.b THEN 1 ELSE 2)
    /\ ~rt.workspace_none =>
          LET n == Len(rt.attention_compute_workspace)
          IN  /\ n \in {1, 2}
              /\ Cardinality(C27_Ring) = n
              /\ \A i, j \in 1..n :
                    rt.attention_compute_workspace[i][1]
                        # rt.attention_compute_workspace[j][2]
              /\ rt.workspace_pt \in 0..(n - 1)
              /\ \A s \in 1..Len(rt.returned) :
                    s + n - 1 <= Len(rt.returned) =>
                       /\ {rt.returned[t] : t \in s..(s + n - 1)} = C27_Ring
                       /\ \A t, u \in s..(s + n - 1) :
                             rt.returned[t] = rt.returned[u] => t = u

\* the step part: a fetch on an initialized ring advances the index by one
\* modulo the ring size and returns the pair at the new index, and only
\* initialization and teardown change the ring's buffers
C27_RingStep ==
    /\ (last'.op = "next_attention_compute_workspace" /\ ~rt.workspace_none) =>
          /\ last'.err = ""
          /\ rt'.workspace_pt = (rt.workspace_pt + 1)
                                   % Len(rt.attention_compute_workspace)
          /\ last'.ret = rt.attention_compute_workspace[rt'.workspace_pt + 1]
    /\ (rt'.attention_compute_workspace # rt.attention_compute_workspace
          \/ rt'.workspace_none # rt.workspace_none) =>
          last'.op \in {"init_attention_compute_workspace",
                        "del_attention_compute_workspace"}

\* C27: the ring of an initialized host device holds one buffer pair when
\* self-attention and feed-forward are separate layers and two when they are
\* fused; while initialized its index lies in [0, ring size); each fetch
\* advances the index by one modulo the ring size; any n consecutive fetches
\* on a ring of n pairs return each pair exactly once; and the ring's buffers
\* change only at initialization and teardown.
C27_WorkspaceRing == [](C27_RingState) /\ [][C27_RingStep]_vars

\* a fused-layer ring of two pairs fetched three times, the index having
\* wrapped round to 0 and advanced again
C27_Witness ==
    /\ ~rt.workspace_none
    /\ Len(rt.attention_compute_workspace) = 2
    /\ Len(rt.returned) = 3
    /\ rt.workspace_pt = 1
    /\ rt.returned[1] = rt.returned[3]


\* the handles of the non-empty segments of the tensor the run allocated: the
\* tensors created before it
C28_SubHandles == 1..(rt.h - 1)

\* C28: after delete() of a tensor of the mixed device has returned, each of
\* its non-empty sub-tensors is invalidated and the file of a sub-tensor on
\* the disk no longer exists.
C28_DeleteReleasesSubHandles ==
    (last.op = "delete" /\ last.err = "") =>
        \A s \in C28_SubHandles :
            /\ tensors[s].device = None
            /\ tensors[s].name \in DOMAIN files =>
                  files[tensors[s].name] = NoFile


\* copy threads of disk d whose state is one of S
C29_Workers(d, S) == {t \in Threads : worker[d][t].state \in S}

\* items put on the queue of d by the step: what a step of the caller thread
\* (one that moves no worker) adds to the queue
C29_Put(d) ==
    IF worker' = worker /\ queue_none[d] = FALSE
    THEN Len(copy_queue'[d]) - Len(copy_queue[d]) ELSE 0

\* completions the step reports for d: a worker ends the task it held with
\* task_done(), or takes a None, acknowledges it and returns
C29_Done(d) ==
    Cardinality({t \in Threads :
                    \/ /\ worker[d][t].state = "busy"
                       /\ worker'[d][t].state = "idle"
                    \/ /\ worker[d][t].state = "idle"
                       /\ worker'[d][t].state = "exit"})

\* the state part: the counter is the items put (those still queued and
\* those dequeued) less the completions reported (the dequeued items no
\* worker still holds unreported), it is not negative, and no more
\* completions were reported than items were dequeued
C29_CounterState ==
    \A d \in Disks :
        LET queued == Len(copy_queue[d])
            unreported == Cardinality(C29_Workers(d, {"busy", "raised"}))
            sentinels == IF pc = <<"close", d>> \/ queue_none[d]
                         THEN NumCopyThreads ELSE 0
            put == Cardinality(submitted[d]) + sentinels
            dequeued == put - queued
            reported == dequeued - unreported
        IN  /\ unfinished[d] = put - reported
            /\ unfinished[d] >= 0
            /\ reported >= 0
            /\ reported <= dequeued
            /\ reported = Cardinality(written \cap submitted[d])
                             + Cardinality(C29_Workers(d, {"exit"}))

\* the step part: the counter moves by the items the step puts less the
\* completions it reports; a put is a submit_copy of the caller's copy or
\* move, or the Nones of close_copy_threads; a worker reports one item per
\* step, one it had dequeued, and holds none afterwards
C29_CounterStep ==
    \A d \in Disks :
        /\ unfinished'[d] - unfinished[d] = C29_Put(d) - C29_Done(d)
        /\ C29_Put(d) >= 0
        /\ C29_Put(d) > 0 =>
              /\ last'.op \in {"general_copy", "copy", "move",
                               "close_copy_threads"}
              /\ last'.op = "close_copy_threads" => C29_Put(d) = NumCopyThreads
              /\ last'.op # "close_copy_threads" => C29_Put(d) = 1
        /\ \A t \in Threads :
              (worker[d][t].state = "busy" /\ worker'[d][t].state = "idle")
                 => worker'[d][t].item = Sentinel

\* C29: the pending-task counter of a disk's queue is the number of items
\* put on it, tasks and shutdown sentinels, minus the number of completions
\* reported; it is never negative; a completion is reported at most once per
\* dequeued item; and only submit_copy, close_copy_threads and the copy
\* workers change it.
C29_PendingCounter == [](C29_CounterState) /\ [][C29_CounterStep]_vars

\* a task was submitted and completed, the shutdown sentinel is on the queue
\* and not yet taken: one item pending out of two put
C29_Witness ==
    \E d \in Disks :
        /\ Cardinality(submitted[d]) = 1
        /\ written \cap submitted[d] # {}
        /\ pc = <<"close", d>>
        /\ copy_queue[d] = <<Sentinel>>
        /\ unfinished[d] = 1


\* live handles of the disk that were allocated without a name
C30_LiveAutoDisk ==
    {h \in rt.auto : /\ tensors[h].device # None
                     /\ DeviceType(tensors[h].device) = "DISK"}

\* the state part: generated names carry strictly increasing numbers in
\* allocation order and are pairwise distinct, and two live disk handles with
\* generated names have different files, both existing
C30_NamesState ==
    /\ \A g, h \in rt.auto :
          g < h => /\ NameNumber(tensors[g].name) < NameNumber(tensors[h].name)
                   /\ tensors[g].name # tensors[h].name
    /\ \A g, h \in C30_LiveAutoDisk :
          g # h => tensors[g].data # tensors[h].data

\* the step part: delete() of a disk handle with a generated name leaves the
\* file of every other live disk handle with a generated name as it was
C30_NamesStep ==
    \A h \in C30_LiveAutoDisk :
        (last'.op = "delete" /\ last'.a = h /\ rt'.n = rt.n + 1) =>
            \A g \in C30_LiveAutoDisk \ {h} :
                files'[tensors[g].data] = files[tensors[g].data]

\* C30: the names generated for handles allocated without an explicit name
\* are strictly increasing in allocation order and pairwise distinct; two
\* live disk handles allocated without explicit names never share a backing
\* file, and deleting one never removes the file of the other.
C30_GeneratedNames == [](C30_NamesState) /\ [][C30_NamesStep]_vars

\* two disk handles with generated names t_9 and t_10, the first deleted and
\* its file removed, the second live with its file in place
C30_Witness ==
    /\ Len(tensors) >= 2
    /\ {1, 2} \subseteq rt.auto
    /\ last.op = "delete" /\ last.a = 1 /\ last.err = ""
    /\ tensors[2].device \in Disks
    /\ tensors[1].name = next_name(9)
    /\ tensors[2].name = next_name(10)
    /\ files[tensors[1].name] = NoFile
    /\ files[tensors[2].name] # NoFile

====
